---- MODULE Spec2Model ----
(***************************************************************************)
(* A model of scripts/chrome_extension/popup.js: the account merge, the    *)
(* failure-report override store and the batch extraction of the manual    *)
(* patch extension.                                                        *)
(*                                                                         *)
(* A JavaScript string is a sequence of one-character strings, so that     *)
(* trim, toLowerCase, template concatenation and localeCompare are         *)
(* computed and not assumed.                                               *)
(***************************************************************************)
EXTENDS Naturals, Integers, Sequences, FiniteSets, TLC

VARIABLES
    mPc,          \* SpecMerge: "input", "parsed", "merged" or "remerged"
    mBase,        \* SpecMerge: the baseAccounts argument (raw items)
    mIncoming,    \* SpecMerge: the newAccounts argument (raw items)
    mOut,         \* SpecMerge: mergeAccounts(mBase, mIncoming)
    mOut2,        \* SpecMerge: mergeAccounts(mOut, mIncoming)
    mParsed,      \* SpecMerge: what parseAccountsJsonArray made of the items
    failedSites,  \* the working set (popup.js:26)
    meta,         \* what failedMetaEl shows: count, generation time, source
    status,       \* what statusEl shows
    store,        \* chrome.storage.local: the three override keys
    drafts,       \* chrome.storage.local: the two draft keys
    baseText,     \* baseAccountsEl.value
    resultJson,   \* resultJsonEl.value
    initPc,       \* init(): "draft", "restore", "load", "done" or "failed"
    initSaw,      \* what init()'s pending storageGet will deliver
    initDid,      \* which of "override", "canonical" init() has executed
    rPc,          \* the refresh handler: "idle", "fetch" or "clearing"
    iPc,          \* the import handler: "idle", "reading" or "saving"
    iFile,        \* the file the import handler was given
    ev,           \* the step taken last
    lastRender,   \* which operation assigned failedSites last
    lastCommit,   \* which operation wrote the override keys last
    shown,        \* what the import that wrote the override keys rendered
    xPc,          \* the batch extraction: "idle", "session", "identity" or "saving"
    xSites,       \* the array the extraction's for-of loop iterates
    xi,           \* the index in xSites of the record being processed
    xBase,        \* the extraction's baseAccounts
    xSession,     \* the session found for the record being processed
    extracted,    \* the extraction's extracted array
    missed,       \* the extraction's missed array
    xLog,         \* the outcome of each record processed, in order
    xCalls,       \* the lookups the extraction has issued, in order
    summary,      \* what extractSummaryEl shows
    cPc,          \* the current-site extraction: "idle", "tab", "cookie",
                  \* "cookies", "identity" or "saving"
    cTab,         \* the active tab it works on
    cSession,     \* the session it found
    cBase,        \* its baseAccounts
    cMatched,     \* its matchedSite: no record or one
    cFromPage,    \* its apiUserFromPage
    cRecord,      \* its currentRecord: no record or one
    cMissing,     \* its missingFields
    dPc,          \* the hostname comparison: "input" or "compared"
    dHost,        \* its hostname argument
    dCandidate,   \* its candidateDomain argument
    dSame         \* its result

mergeVars == <<mPc, mBase, mIncoming, mOut, mOut2, mParsed>>
uiVars == <<failedSites, meta, status, baseText, resultJson>>
storageVars == <<store, drafts>>
initVars == <<initPc, initSaw, initDid>>
opVars == <<rPc, iPc, iFile>>
historyVars == <<ev, lastRender, lastCommit, shown>>
extractVars == <<xPc, xSites, xi, xBase, xSession, extracted, missed, xLog, xCalls, summary>>
currentVars == <<cPc, cTab, cSession, cBase, cMatched, cFromPage, cRecord, cMissing>>
domainVars == <<dPc, dHost, dCandidate, dSame>>
vars == <<mergeVars, uiVars, storageVars, initVars, opVars, historyVars, extractVars,
          currentVars, domainVars>>

----------------------------------------------------------------------------
(* Bounds of the model. *)

\* The number of raw records in base and incoming together (SpecMerge).
MaxAccounts == 2

----------------------------------------------------------------------------
(* Strings. *)

EmptyStr == <<>>

\* JavaScript's a || b on two strings: the empty string is falsy.
OrStr(a, b) == IF a # EmptyStr THEN a ELSE b

\* String.prototype.toLowerCase, one character.
LowerChar(c) ==
    CASE c = "A" -> "a"
      [] c = "B" -> "b"
      [] c = "C" -> "c"
      [] OTHER -> c

ToLowerCase(s) == [i \in 1..Len(s) |-> LowerChar(s[i])]

IsSpace(c) == c = " "

RECURSIVE TrimStart(_)
TrimStart(s) ==
    IF s # <<>> /\ IsSpace(Head(s)) THEN TrimStart(Tail(s)) ELSE s

RECURSIVE TrimEnd(_)
TrimEnd(s) ==
    IF s # <<>> /\ IsSpace(s[Len(s)]) THEN TrimEnd(SubSeq(s, 1, Len(s) - 1)) ELSE s

\* String.prototype.trim.
Trim(s) == TrimEnd(TrimStart(s))

\* The primary collation weight of a character in the root locale: white
\* space, then punctuation, then digits, then letters, a letter's two cases
\* sharing one weight.
PrimaryWeight(c) ==
    CASE c = " " -> 1
      [] c = "_" -> 2
      [] c = "1" -> 3
      [] c = "2" -> 4
      [] c \in {"a", "A"} -> 10
      [] c \in {"b", "B"} -> 11
      [] c \in {"c", "C"} -> 12
      [] c \in {"m", "M"} -> 13
      [] c \in {"n", "N"} -> 14
      [] c \in {"s", "S"} -> 15
      [] c \in {"t", "T"} -> 16
      [] OTHER -> 20

\* The tertiary (case) weight: lower case sorts before upper case.
TertiaryWeight(c) == IF c \in {"A", "B", "C", "M", "N", "S", "T"} THEN 1 ELSE 0

\* The lexicographic comparison of two sequences of weights: -1, 0 or 1.
RECURSIVE CompareWeights(_, _)
CompareWeights(u, v) ==
    IF u = <<>> /\ v = <<>> THEN 0
    ELSE IF u = <<>> THEN -1
    ELSE IF v = <<>> THEN 1
    ELSE IF Head(u) < Head(v) THEN -1
    ELSE IF Head(u) > Head(v) THEN 1
    ELSE CompareWeights(Tail(u), Tail(v))

\* String.prototype.localeCompare: the primary weights of the whole strings
\* decide first, the case weights only between strings of equal primary
\* weights.
LocaleCompare(s, t) ==
    LET p == CompareWeights([i \in 1..Len(s) |-> PrimaryWeight(s[i])],
                            [i \in 1..Len(t) |-> PrimaryWeight(t[i])])
    IN  IF p # 0 THEN p
        ELSE CompareWeights([i \in 1..Len(s) |-> TertiaryWeight(s[i])],
                            [i \in 1..Len(t) |-> TertiaryWeight(t[i])])

----------------------------------------------------------------------------
(* Account records. *)

\* A raw item of an account list: obj is FALSE for an item that is no
\* object (null, a number); a field that is absent is the empty string.
RawAccount(provider, api_user, name, session) ==
    [obj |-> TRUE, provider |-> provider, api_user |-> api_user,
     name |-> name, session |-> session]

NonObjectItem ==
    [obj |-> FALSE, provider |-> <<>>, api_user |-> <<>>, name |-> <<>>, session |-> <<>>]

normalizeProvider(value) == ToLowerCase(Trim(value))

\* `${provider}_${apiUser}`
UnderscoreJoin(a, b) == a \o <<"_">> \o b

\* A plausible slip: the api_user is not tested.
normalizeAccountRecordByProvider(input) ==
    IF ~input.obj THEN <<>>
    ELSE LET provider == normalizeProvider(input.provider)
             apiUser == Trim(input.api_user)
             fallback == UnderscoreJoin(provider, apiUser)
         IN  IF provider = EmptyStr THEN <<>>
             ELSE << [obj |-> TRUE,
                      name |-> OrStr(Trim(OrStr(input.name, fallback)), fallback),
                      provider |-> provider,
                      session |-> Trim(input.session),
                      api_user |-> apiUser] >>

\* normalizeAccountRecord: the empty sequence for null, else one record.
normalizeAccountRecord(input) ==
    IF ~input.obj THEN <<>>
    ELSE LET provider == normalizeProvider(input.provider)
             apiUser == Trim(input.api_user)
             fallback == UnderscoreJoin(provider, apiUser)
         IN  IF provider = EmptyStr \/ apiUser = EmptyStr THEN <<>>
             ELSE << [obj |-> TRUE,
                      name |-> OrStr(Trim(OrStr(input.name, fallback)), fallback),
                      provider |-> provider,
                      session |-> Trim(input.session),
                      api_user |-> apiUser] >>

\* items.map(normalizeAccountRecord).filter(Boolean)
RECURSIVE NormalizeAll(_)
NormalizeAll(items) ==
    IF items = <<>> THEN <<>>
    ELSE normalizeAccountRecord(Head(items)) \o NormalizeAll(Tail(items))

mergeAccountPair(existing, incoming) ==
    LET incomingSession == Trim(incoming.session)
        existingSession == Trim(existing.session)
    IN  [obj |-> TRUE,
         name |-> Trim(OrStr(incoming.name, existing.name)),
         provider |-> normalizeProvider(OrStr(incoming.provider, existing.provider)),
         session |-> OrStr(incomingSession, existingSession),
         api_user |-> Trim(OrStr(incoming.api_user, existing.api_user))]

\* The Map of mergeAccounts is a sequence of [key, value] entries in
\* insertion order; Map.set on a key it holds keeps the entry's place.
MapIndex(map, key) ==
    IF \E i \in 1..Len(map) : map[i].key = key
    THEN CHOOSE i \in 1..Len(map) : map[i].key = key
    ELSE 0

MapSet(map, key, value) ==
    LET i == MapIndex(map, key)
    IN  IF i = 0 THEN Append(map, [key |-> key, value |-> value])
        ELSE [map EXCEPT ![i] = [key |-> key, value |-> value]]

MapValues(map) == [i \in 1..Len(map) |-> map[i].value]

\* A plausible slip: the key is built from the raw item, not the normalized one.
upsertRawKey(map, item) ==
    LET n == normalizeAccountRecord(item)
    IN  IF n = <<>> THEN map
        ELSE LET key == UnderscoreJoin(item.provider, item.api_user)
                 i == MapIndex(map, key)
             IN  IF i = 0 THEN MapSet(map, key, n[1])
                 ELSE MapSet(map, key, mergeAccountPair(map[i].value, n[1]))

\* mergeAccounts' upsert closure.
upsert(map, item) ==
    LET n == normalizeAccountRecord(item)
    IN  IF n = <<>> THEN map
        ELSE LET key == UnderscoreJoin(n[1].provider, n[1].api_user)
                 i == MapIndex(map, key)
             IN  IF i = 0 THEN MapSet(map, key, n[1])
                 ELSE MapSet(map, key, mergeAccountPair(map[i].value, n[1]))

RECURSIVE UpsertAll(_, _)
UpsertAll(map, items) ==
    IF items = <<>> THEN map
    ELSE UpsertAll(upsert(map, Head(items)), Tail(items))

\* The comparator of mergeAccounts' sort.
accountCompare(a, b) ==
    LET byProvider == LocaleCompare(a.provider, b.provider)
    IN  IF byProvider # 0 THEN byProvider
        ELSE LocaleCompare(a.api_user, b.api_user)

\* Array.prototype.sort is stable: x goes after every item that is not
\* greater than it.
RECURSIVE InsertSorted(_, _)
InsertSorted(sorted, x) ==
    IF sorted = <<>> THEN <<x>>
    ELSE IF accountCompare(sorted[Len(sorted)], x) <= 0 THEN Append(sorted, x)
    ELSE Append(InsertSorted(SubSeq(sorted, 1, Len(sorted) - 1), x), sorted[Len(sorted)])

RECURSIVE SortFrom(_, _)
SortFrom(sorted, items) ==
    IF items = <<>> THEN sorted
    ELSE SortFrom(InsertSorted(sorted, Head(items)), Tail(items))

\* A plausible slip: the result is returned in insertion order.
sortAccountsOmitted(items) == items

sortAccounts(items) == SortFrom(<<>>, items)

mergeAccounts(baseAccounts, newAccounts) ==
    sortAccounts(MapValues(UpsertAll(UpsertAll(<<>>, baseAccounts), newAccounts)))

----------------------------------------------------------------------------
(* Failure reports. *)

\* A URL string is the token "https://", the characters of the host and the
\* token "/"; any other non-empty string is no URL.
UrlOf(host) == <<"https://">> \o host \o <<"/">>

RECURSIVE UpToSlash(_)
UpToSlash(s) ==
    IF s = <<>> \/ Head(s) = "/" THEN <<>> ELSE <<Head(s)>> \o UpToSlash(Tail(s))

\* parseDomainFromUrl: new URL(rawUrl).hostname, "" when URL throws.
parseDomainFromUrl(rawUrl) ==
    IF rawUrl # <<>> /\ Head(rawUrl) = "https://"
    THEN ToLowerCase(UpToSlash(Tail(rawUrl)))
    ELSE EmptyStr

\* A raw entry of failed_sites: kind is "obj" for an object, "null" for
\* null and "scalar" for a number or a string, none of whose fields exists.
RawSite(provider, account_name, api_user, site_url, login_url, oauth_login_url, reason) ==
    [kind |-> "obj", provider |-> provider, account_name |-> account_name,
     api_user |-> api_user, site_url |-> site_url, login_url |-> login_url,
     oauth_login_url |-> oauth_login_url, reason |-> reason]

NullSite ==
    [kind |-> "null", provider |-> <<>>, account_name |-> <<>>, api_user |-> <<>>,
     site_url |-> <<>>, login_url |-> <<>>, oauth_login_url |-> <<>>, reason |-> <<>>]

ScalarSite == [NullSite EXCEPT !.kind = "scalar"]

\* normalizeFailedSite reads site.provider first: a TypeError on null.
normalizeFailedSiteThrows(site) == site.kind = "null"

normalizeFailedSite(site) ==
    [kind |-> "obj",
     provider |-> normalizeProvider(site.provider),
     account_name |-> Trim(site.account_name),
     api_user |-> Trim(site.api_user),
     site_url |-> Trim(site.site_url),
     login_url |-> Trim(site.login_url),
     oauth_login_url |-> Trim(site.oauth_login_url),
     reason |-> Trim(site.reason)]

\* A JSON value read as a report: isObj is FALSE for null, a number or a
\* string; hasSites says that failed_sites is an array; an absent
\* generated_at or source is the empty string.
ReportValue(generated_at, source, failed_count, failed_sites) ==
    [isObj |-> TRUE, generated_at |-> generated_at, source |-> source,
     failed_count |-> failed_count, hasSites |-> TRUE, failed_sites |-> failed_sites]

NullValue ==
    [isObj |-> FALSE, generated_at |-> <<>>, source |-> <<>>,
     failed_count |-> 0, hasSites |-> FALSE, failed_sites |-> <<>>]

\* An object with no array failed_sites.
ObjectWithoutSites == [NullValue EXCEPT !.isObj = TRUE]

\* A text: JSON.stringify(value), or a text JSON.parse rejects.
JsonStringify(value) == [wellFormed |-> TRUE, value |-> value]

GarbageText == [wellFormed |-> FALSE, value |-> NullValue]

safeJsonParse(text, fallback) == IF text.wellFormed THEN text.value ELSE fallback

\* A plausible slip: only the object test, failed_sites is not looked at.
notAReportUnlessObject(parsed) == ~parsed.isObj

\* !parsed || !Array.isArray(parsed.failed_sites)
notAReport(parsed) == ~parsed.isObj \/ ~parsed.hasSites

\* A plausible slip: failed_count is taken from the input when it has one.
normalizeFailedReportTrustsCount(report, defaultSource, now) ==
    LET failed == IF report.hasSites THEN report.failed_sites ELSE <<>>
    IN  [isObj |-> TRUE,
         generated_at |-> OrStr(report.generated_at, now),
         source |-> OrStr(report.source, defaultSource),
         failed_count |-> IF report.failed_count # 0 THEN report.failed_count ELSE Len(failed),
         hasSites |-> TRUE,
         failed_sites |-> failed]

\* normalizeFailedReport; now is new Date().toISOString().
normalizeFailedReport(report, defaultSource, now) ==
    LET failed == IF report.hasSites THEN report.failed_sites ELSE <<>>
    IN  [isObj |-> TRUE,
         generated_at |-> OrStr(report.generated_at, now),
         source |-> OrStr(report.source, defaultSource),
         failed_count |-> Len(failed),
         hasSites |-> TRUE,
         failed_sites |-> failed]

\* `${x.provider}_${x.account_name}_${x.api_user}`
failedSiteKey(x) == UnderscoreJoin(UnderscoreJoin(x.provider, x.account_name), x.api_user)

\* dedupeByKey with the failed-site key, which is never empty.
RECURSIVE DedupeInto(_, _)
DedupeInto(map, items) ==
    IF items = <<>> THEN map
    ELSE DedupeInto(MapSet(map, failedSiteKey(Head(items)), Head(items)), Tail(items))

dedupeByKey(items) == MapValues(DedupeInto(<<>>, items))

\* String(generated_at).replace("T", " "): the first T only.
RECURSIVE ReplaceFirstT(_)
ReplaceFirstT(s) ==
    IF s = <<>> THEN <<>>
    ELSE IF Head(s) = "T" THEN <<" ">> \o Tail(s)
    ELSE <<Head(s)>> \o ReplaceFirstT(Tail(s))

MetaTimeLen == 19

Slice(s, n) == SubSeq(s, 1, IF Len(s) < n THEN Len(s) ELSE n)

\* renderFailedSites throws before it assigns anything when an entry is null.
renderThrows(report) ==
    /\ report.hasSites
    /\ \E i \in 1..Len(report.failed_sites) : normalizeFailedSiteThrows(report.failed_sites[i])

\* The working set renderFailedSites assigns to failedSites.
renderedSites(report) ==
    LET failed == IF report.hasSites THEN report.failed_sites ELSE <<>>
    IN  dedupeByKey([i \in 1..Len(failed) |-> normalizeFailedSite(failed[i])])

\* What renderFailedSites writes to failedMetaEl.
renderedMeta(report, now) ==
    LET normalized == normalizeFailedReport(report, <<"unknown">>, now)
    IN  [count |-> Len(renderedSites(report)),
         generatedAt |-> Slice(ReplaceFirstT(normalized.generated_at), MetaTimeLen),
         source |-> normalized.source]

----------------------------------------------------------------------------
(* The popup: its state when the script has run to init()'s first await.    *)

popupVars == <<uiVars, storageVars, initVars, opVars, historyVars, extractVars,
              currentVars, domainVars>>

AbsentStore == [enabled |-> FALSE, payload |-> <<>>, fileName |-> <<>>]

\* The text of a textarea or of a draft key: kind is "blank" for the empty
\* text, "spaces" for white space alone, "array" for a JSON array of items,
\* "object" for JSON that is no array and "garbage" for text JSON.parse
\* rejects.
AccountsText(kind, items) == [kind |-> kind, items |-> items]

BlankText == AccountsText("blank", <<>>)

\* JavaScript's a || b on two texts.
OrText(a, b) == IF a.kind # "blank" THEN a ELSE b

\* parseAccountsJsonArray: ok is FALSE when it throws.
parseAccountsJsonArray(text) ==
    IF text.kind # "array" THEN [ok |-> FALSE, accounts |-> <<>>]
    ELSE [ok |-> TRUE, accounts |-> NormalizeAll(text.items)]

NoDrafts == [base |-> BlankText, result |-> BlankText]

NoSummary == [succeeded |-> 0, failed |-> 0, reasons |-> <<>>, more |-> 0]

NoTab == [url |-> <<>>, id |-> 0]

\* No current-site extraction has run in this popup.
CurrentIdle ==
    /\ cPc = "idle"
    /\ cTab = NoTab
    /\ cSession = <<>>
    /\ cBase = <<>>
    /\ cMatched = <<>>
    /\ cFromPage = <<>>
    /\ cRecord = <<>>
    /\ cMissing = <<>>

\* No hostname comparison is being made.
DomainIdle ==
    /\ dPc = "idle"
    /\ dHost = <<>>
    /\ dCandidate = <<>>
    /\ dSame = FALSE

\* No merge is being made.
MergeIdle ==
    /\ mPc = "idle"
    /\ mBase = <<>>
    /\ mIncoming = <<>>
    /\ mOut = <<>>
    /\ mOut2 = <<>>
    /\ mParsed = <<>>

NoMeta == [count |-> 0, generatedAt |-> <<>>, source |-> <<>>]

NoFile == [name |-> <<>>, text |-> GarbageText]

NoShown == [sites |-> <<>>, meta |-> NoMeta]

Status(msg) == [msg |-> msg, name |-> <<>>, count |-> 0]

\* The in-memory state of a popup that has just been opened; init() has
\* called restoreDraft, whose storageGet is pending.
PopupOpened ==
    /\ failedSites = <<>>
    /\ meta = NoMeta
    /\ status = Status("")
    /\ baseText = BlankText
    /\ resultJson = BlankText
    /\ initPc = "draft"
    /\ initDid = {}
    /\ rPc = "idle"
    /\ iPc = "idle"
    /\ iFile = NoFile
    /\ lastRender = "none"
    /\ xPc = "idle"
    /\ xSites = <<>>
    /\ xi = 0
    /\ xBase = <<>>
    /\ xSession = <<>>
    /\ extracted = <<>>
    /\ missed = <<>>
    /\ xLog = <<>>
    /\ xCalls = <<>>
    /\ summary = NoSummary
    /\ CurrentIdle

\* A fresh installation: nothing is persisted.
PopupStart ==
    /\ PopupOpened
    /\ store = AbsentStore
    /\ drafts = NoDrafts
    /\ initSaw = [drafts |-> NoDrafts, store |-> AbsentStore]
    /\ DomainIdle
    /\ ev = "Start"
    /\ lastCommit = "none"
    /\ shown = NoShown

----------------------------------------------------------------------------
(* SpecMerge: mergeAccounts applied to every pair of small account lists,   *)
(* and then applied again to its own result and the same incoming list.    *)

MergeProviders == { <<"A">>, <<"a", "_", "b">>, <<"b">> }
MergeApiUsers == { <<"c", " ">>, <<"b", "_", "c">> }
MergeSessions == { <<>>, <<"S">>, <<"T">> }
MergeNames == { <<>>, <<"n">> }

\* The raw items the lists are drawn from: every combination of the fields
\* above, an item with no provider, an item with no api_user, and an item
\* that is no object.
MergeItems ==
    { RawAccount(p, u, n, s) :
        p \in MergeProviders, u \in MergeApiUsers, n \in MergeNames, s \in MergeSessions }
    \cup { RawAccount(<<" ">>, <<"c">>, <<"n">>, <<"S">>),
           RawAccount(<<"b">>, <<" ">>, <<"n">>, <<"S">>),
           NonObjectItem }

SeqsUpTo(S, n) == UNION { [1..k -> S] : k \in 0..n }

MergeInit ==
    /\ mPc = "input"
    /\ \E all \in SeqsUpTo(MergeItems, MaxAccounts) :
         \E k \in 0..Len(all) :
            /\ mBase = SubSeq(all, 1, k)
            /\ mIncoming = SubSeq(all, k + 1, Len(all))
    /\ mOut = <<>>
    /\ mOut2 = <<>>
    /\ mParsed = <<>>
    /\ PopupStart

Merge ==
    /\ mPc = "input"
    /\ mOut' = mergeAccounts(mBase, mIncoming)
    /\ mPc' = "merged"
    /\ UNCHANGED <<mBase, mIncoming, mOut2, mParsed, popupVars>>

ReMerge ==
    /\ mPc = "merged"
    /\ mOut2' = mergeAccounts(mOut, mIncoming)
    /\ mPc' = "remerged"
    /\ UNCHANGED <<mBase, mIncoming, mOut, mParsed, popupVars>>

\* parseAccountsJsonArray applied to the JSON array of the drawn items:
\* mParsed holds what it returns.
ParseList ==
    /\ mPc = "input"
    /\ mParsed' = << parseAccountsJsonArray(AccountsText("array", mBase \o mIncoming)) >>
    /\ mPc' = "parsed"
    /\ UNCHANGED <<mBase, mIncoming, mOut, mOut2, popupVars>>

MergeNext == Merge \/ ReMerge \/ ParseList

SpecMerge == MergeInit /\ [][MergeNext]_vars

----------------------------------------------------------------------------
(* The environment of the override store: the packaged failed_sites.json,   *)
(* the files the user imports, and the clock.                              *)

SiteA == RawSite(<<"A">>, <<"n">>, <<"1">>, <<>>, UrlOf(<<"x">>), <<>>, <<"r">>)
\* SiteA's identity key once normalized, every other field different.
SiteA2 == RawSite(<<"a", " ">>, <<"n">>, <<"1">>, UrlOf(<<"y">>), <<>>, <<>>, <<>>)
SiteB == RawSite(<<"b">>, <<>>, <<>>, <<>>, <<>>, <<>>, <<>>)

\* What fetch(failed_sites.json) and response.json() deliver: ok is FALSE
\* for a rejected fetch, a status that is not ok or a body that is no JSON.
HttpError == [ok |-> FALSE, json |-> NullValue]
Fetched(value) == [ok |-> TRUE, json |-> value]

CanonEmpty == ReportValue(<<"2", "T", "1">>, <<>>, 0, <<>>)
CanonSites == ReportValue(<<"2", "T", "2">>, <<>>, 2, <<SiteB, SiteA>>)
CanonNull == ReportValue(<<"2", "T", "3">>, <<>>, 2, <<SiteB, NullSite>>)

FetchOutcomes == { HttpError, Fetched(CanonEmpty), Fetched(CanonSites), Fetched(CanonNull) }

File(name, text) == [name |-> name, text |-> text]

\* No generated_at, no source, a failed_count that is wrong, two entries of
\* one key and an entry that is a number.
ImportTwo == ReportValue(<<>>, <<>>, 7, <<SiteA, SiteA2, ScalarSite>>)
ImportDated == ReportValue(<<"3", "T", "1">>, <<"m">>, 1, <<SiteB>>)
ImportNull == ReportValue(<<>>, <<>>, 2, <<SiteA, NullSite>>)
\* Two entries that differ in provider and account name, whose provider
\* and account name joined by an underscore read the same.
SiteJoinedLeft == RawSite(<<"a", "_", "b">>, <<"c">>, <<"1">>, <<>>, UrlOf(<<"x">>), <<>>, <<>>)
SiteJoinedRight == RawSite(<<"a">>, <<"b", "_", "c">>, <<"1">>, <<>>, UrlOf(<<"y">>), <<>>, <<>>)
ImportJoined == ReportValue(<<>>, <<>>, 2, <<SiteJoinedLeft, SiteJoinedRight>>)

ImportFiles ==
    { File(<<"f">>, JsonStringify(ImportTwo)),
      File(<<"g">>, JsonStringify(ImportDated)),
      File(<<"h">>, JsonStringify(ImportNull)),
      File(<<"k">>, JsonStringify(ImportJoined)),
      File(<<"i">>, JsonStringify(ObjectWithoutSites)),
      File(<<"j">>, GarbageText) }

\* new Date().toISOString()
Times == { <<"9", "T", "1">>, <<"9", "T", "2">> }

----------------------------------------------------------------------------
(* init() (popup.js:649-661). *)

\* restoreDraft's storageGet answers; restoreImportedFailedReport then
\* issues its own storageGet, which reads the store as it is now.
InitRestoreDraft ==
    /\ initPc = "draft"
    /\ baseText' = OrText(initSaw.drafts.base, baseText)
    /\ resultJson' = OrText(initSaw.drafts.result, resultJson)
    /\ initSaw' = [drafts |-> NoDrafts, store |-> store]
    /\ initPc' = "restore"
    /\ ev' = "InitRestoreDraft"
    /\ UNCHANGED <<failedSites, meta, status, storageVars, initDid, opVars,
                   lastRender, lastCommit, shown, mergeVars, currentVars, domainVars, extractVars>>

\* What restoreImportedFailedReport makes of the keys it read: the report
\* to render, or none (the function returns false).
restorableReport(data, now) ==
    IF ~data.enabled \/ data.payload = <<>> THEN <<>>
    ELSE LET parsed == safeJsonParse(data.payload[1], NullValue)
         IN  IF notAReport(parsed) THEN <<>>
             ELSE << normalizeFailedReport(parsed, <<"email_import">>, now) >>

\* A plausible slip: init() does not return after a restore and goes on to
\* load the canonical source as well.
initAfterRestoreFallsThrough(restored) == "load"

\* init(): if (restored) return;
initAfterRestore(restored) == IF restored THEN "done" ELSE "load"

\* restoreImportedFailedReport's storageGet answers.
InitRestore ==
    /\ initPc = "restore"
    /\ \E now \in Times :
         LET found == restorableReport(initSaw.store, now)
         IN  IF found = <<>>
             THEN /\ initPc' = initAfterRestore(FALSE)
                  /\ initDid' = initDid \cup {"canonical"}
                  /\ ev' = "InitLoadCalled"
                  /\ UNCHANGED <<failedSites, meta, status, lastRender>>
             ELSE IF renderThrows(found[1])
             THEN /\ initPc' = "failed"
                  /\ ev' = "InitRestoreThrew"
                  /\ UNCHANGED <<failedSites, meta, status, lastRender, initDid>>
             ELSE /\ failedSites' = renderedSites(found[1])
                  /\ meta' = renderedMeta(found[1], now)
                  /\ status' = [Status("override_loaded") EXCEPT
                                  !.name = IF initSaw.store.fileName = <<>>
                                           THEN <<"file">>
                                           ELSE initSaw.store.fileName[1]]
                  /\ initPc' = initAfterRestore(TRUE)
                  /\ initDid' = initDid \cup
                        (IF initAfterRestore(TRUE) = "load" THEN {"override", "canonical"}
                         ELSE {"override"})
                  /\ lastRender' = "override"
                  /\ ev' = "InitRestored"
    /\ UNCHANGED <<baseText, resultJson, storageVars, initSaw, opVars, lastCommit, shown,
                   mergeVars, currentVars, domainVars, extractVars>>

\* loadFailedReport called by init() answers.
InitLoaded ==
    /\ initPc = "load"
    /\ \E got \in FetchOutcomes, now \in Times :
         LET report == normalizeFailedReport(got.json, <<"local">>, now)
         IN  IF ~got.ok \/ renderThrows(report)
             THEN /\ status' = Status("load_failed_pull")
                  /\ ev' = "InitLoadFailed"
                  /\ UNCHANGED <<failedSites, meta, lastRender>>
             ELSE /\ failedSites' = renderedSites(report)
                  /\ meta' = renderedMeta(report, now)
                  /\ status' = Status("loaded")
                  /\ lastRender' = "canonical"
                  /\ ev' = "InitLoaded"
    /\ initPc' = "done"
    /\ UNCHANGED <<baseText, resultJson, storageVars, initSaw, initDid, opVars,
                   lastCommit, shown, mergeVars, currentVars, domainVars, extractVars>>

----------------------------------------------------------------------------
(* The refresh button (popup.js:587-595). *)

\* The click: loadFailedReport issues its fetch.
RefreshClick ==
    /\ rPc = "idle"
    /\ rPc' = "fetch"
    /\ ev' = "RefreshClick"
    /\ UNCHANGED <<uiVars, storageVars, initVars, iPc, iFile, lastRender, lastCommit, shown,
                   mergeVars, currentVars, domainVars, extractVars>>

\* The fetch failed, or the body cannot be rendered: the catch reports it
\* and clearImportedFailedReport is not reached.
RefreshFailed ==
    /\ rPc = "fetch"
    /\ \E got \in FetchOutcomes, now \in Times :
         /\ ~got.ok \/ renderThrows(normalizeFailedReport(got.json, <<"local">>, now))
         /\ status' = Status("load_failed")
    /\ rPc' = "idle"
    /\ ev' = "RefreshFailed"
    /\ UNCHANGED <<failedSites, meta, baseText, resultJson, storageVars, initVars,
                   iPc, iFile, lastRender, lastCommit, shown, mergeVars, currentVars, domainVars, extractVars>>

\* A plausible slip: the handler renders and does not clear the override.
clearedStoreKept(s) == s

\* A plausible slip: the payload and the label are removed, the flag is not.
clearedStoreButFlag(s) == [enabled |-> s.enabled, payload |-> <<>>, fileName |-> <<>>]

\* clearImportedFailedReport: storageRemove of the three keys.
clearedStore(s) == AbsentStore

\* The report arrived: it is rendered and, in the same turn of the event
\* loop, clearImportedFailedReport issues its storageRemove.
RefreshLoaded ==
    /\ rPc = "fetch"
    /\ \E got \in FetchOutcomes, now \in Times :
         LET report == normalizeFailedReport(got.json, <<"local">>, now)
         IN  /\ got.ok /\ ~renderThrows(report)
             /\ failedSites' = renderedSites(report)
             /\ meta' = renderedMeta(report, now)
    /\ store' = clearedStore(store)
    /\ rPc' = "clearing"
    /\ lastRender' = "canonical"
    /\ lastCommit' = "refresh"
    /\ shown' = NoShown
    /\ ev' = "RefreshLoaded"
    /\ UNCHANGED <<status, baseText, resultJson, drafts, initVars, iPc, iFile,
                   mergeVars, currentVars, domainVars, extractVars>>

\* storageRemove answers.
RefreshDone ==
    /\ rPc = "clearing"
    /\ status' = Status("refreshed")
    /\ rPc' = "idle"
    /\ ev' = "RefreshDone"
    /\ UNCHANGED <<failedSites, meta, baseText, resultJson, storageVars, initVars,
                   iPc, iFile, lastRender, lastCommit, shown, mergeVars, currentVars, domainVars, extractVars>>

----------------------------------------------------------------------------
(* The import (popup.js:199-216, 602-615). *)

\* The user picks a file: importFailedReportFromFile awaits file.text().
ImportChange ==
    /\ iPc = "idle"
    /\ \E file \in ImportFiles : iFile' = file
    /\ iPc' = "reading"
    /\ ev' = "ImportChange"
    /\ UNCHANGED <<uiVars, storageVars, initVars, rPc, lastRender, lastCommit, shown,
                   mergeVars, currentVars, domainVars, extractVars>>

\* The text is no report: the handler's catch reports the error.
ImportRejected ==
    /\ iPc = "reading"
    /\ notAReport(safeJsonParse(iFile.text, NullValue))
    /\ status' = Status("import_invalid")
    /\ iPc' = "idle"
    /\ ev' = "ImportRejected"
    /\ UNCHANGED <<failedSites, meta, baseText, resultJson, storageVars, initVars,
                   rPc, iFile, lastRender, lastCommit, shown, mergeVars, currentVars, domainVars, extractVars>>

\* renderFailedSites throws on a null entry: the handler's catch reports it.
ImportThrew ==
    /\ iPc = "reading"
    /\ ~notAReport(safeJsonParse(iFile.text, NullValue))
    /\ renderThrows(safeJsonParse(iFile.text, NullValue))
    /\ status' = Status("import_threw")
    /\ iPc' = "idle"
    /\ ev' = "ImportThrew"
    /\ UNCHANGED <<failedSites, meta, baseText, resultJson, storageVars, initVars,
                   rPc, iFile, lastRender, lastCommit, shown, mergeVars, currentVars, domainVars, extractVars>>

\* A plausible slip: the file's own object is persisted, not the report.
persistedOverrideRaw(parsed, report, name) ==
    [enabled |-> TRUE, payload |-> <<JsonStringify(parsed)>>, fileName |-> <<name>>]

\* The object importFailedReportFromFile passes to storageSet.
persistedOverride(parsed, report, name) ==
    [enabled |-> TRUE, payload |-> <<JsonStringify(report)>>, fileName |-> <<name>>]

\* The text is a report: it is rendered and storageSet is issued.
ImportSaved ==
    /\ iPc = "reading"
    /\ \E now \in Times :
         LET parsed == safeJsonParse(iFile.text, NullValue)
             report == normalizeFailedReport(parsed, <<"email_import">>, now)
         IN  /\ ~notAReport(parsed)
             /\ ~renderThrows(report)
             /\ failedSites' = renderedSites(report)
             /\ meta' = renderedMeta(report, now)
             /\ store' = persistedOverride(parsed, report, iFile.name)
    /\ iPc' = "saving"
    /\ lastRender' = "import"
    /\ lastCommit' = "import"
    /\ shown' = [sites |-> failedSites', meta |-> meta']
    /\ ev' = "ImportSaved"
    /\ UNCHANGED <<status, baseText, resultJson, drafts, initVars, rPc, iFile,
                   mergeVars, currentVars, domainVars, extractVars>>

\* storageSet answers.
ImportDone ==
    /\ iPc = "saving"
    /\ status' = [msg |-> "imported", name |-> iFile.name, count |-> Len(failedSites)]
    /\ iPc' = "idle"
    /\ ev' = "ImportDone"
    /\ UNCHANGED <<failedSites, meta, baseText, resultJson, storageVars, initVars,
                   rPc, iFile, lastRender, lastCommit, shown, mergeVars, currentVars, domainVars, extractVars>>

----------------------------------------------------------------------------
(* The batch extraction (popup.js:499-565, 627-634).                       *)

pickOpenUrl(site) ==
    OrStr(site.login_url, OrStr(site.oauth_login_url, OrStr(site.site_url, EmptyStr)))

RECURSIVE StripLeadingDots(_)
StripLeadingDots(s) ==
    IF s # <<>> /\ Head(s) = "." THEN StripLeadingDots(Tail(s)) ELSE s

normalizeHostname(hostname) == StripLeadingDots(ToLowerCase(Trim(hostname)))

\* The domain the loop derives for a record.
siteDomain(site) ==
    LET openUrl == OrStr(pickOpenUrl(site), site.site_url)
    IN  parseDomainFromUrl(OrStr(openUrl, site.site_url))

\* String.prototype.endsWith
EndsWith(s, t) == Len(t) <= Len(s) /\ SubSeq(s, Len(s) - Len(t) + 1, Len(s)) = t

\* A plausible slip: a plain suffix match, with no label boundary.
isSameOrParentDomainBySuffix(hostname, candidateDomain) ==
    LET host == normalizeHostname(hostname)
        candidate == normalizeHostname(candidateDomain)
    IN  IF host = EmptyStr \/ candidate = EmptyStr THEN FALSE
        ELSE host = candidate \/ EndsWith(host, candidate)

isSameOrParentDomain(hostname, candidateDomain) ==
    LET host == normalizeHostname(hostname)
        candidate == normalizeHostname(candidateDomain)
    IN  IF host = EmptyStr \/ candidate = EmptyStr THEN FALSE
        ELSE host = candidate \/ EndsWith(host, <<".">> \o candidate)

\* A plausible slip: text that is no array is read as an empty list.
parseBaseAccountsLenient(text) ==
    IF text.kind = "array" THEN parseAccountsJsonArray(text)
    ELSE [ok |-> TRUE, accounts |-> <<>>]

parseBaseAccounts(text) ==
    IF text.kind \in {"blank", "spaces"} THEN [ok |-> TRUE, accounts |-> <<>>]
    ELSE parseAccountsJsonArray(text)

\* What chrome.cookies.getAll can do: fail, deliver no session cookie with
\* a value, or deliver one.
CookieOutcomes == { "error", "none", "found" }

\* getSessionByDomain's result on an outcome.
sessionFrom(outcome) == IF outcome = "found" THEN <<"S">> ELSE EmptyStr

\* What the tab lookup can do: chrome.tabs.query rejects, no tab is open on
\* the domain, the script fails or finds nothing, or the page has an id.
TabOutcomes == { "query_rejects", "no_tab", "script_failed", "found" }

\* getApiUserFromOpenTab's result on an outcome on which it returns.
apiUserFrom(outcome) == IF outcome = "found" THEN <<"7">> ELSE EmptyStr

\* An entry of missed: `${provider || "unknown"}/${account_name || "unknown"}: reason`
Missed(site, reason) ==
    [provider |-> OrStr(site.provider, <<"unknown">>),
     account_name |-> OrStr(site.account_name, <<"unknown">>),
     reason |-> reason]

\* The outcome of the record at index, and what its lookups returned.
Outcome(index, outcome, session, apiUserFromPage) ==
    [index |-> index, outcome |-> outcome, session |-> session,
     apiUserFromPage |-> apiUserFromPage]

\* A lookup issued for the record at index: kind is "session" or
\* "identity", state is "pending" until the lookup has returned a value
\* ("returned") or thrown out of the lookup function ("thrown").
Call(index, kind, state) == [index |-> index, kind |-> kind, state |-> state]

\* A plausible slip: the lookup is not awaited, the loop goes on while it
\* is pending.
EndedNotAwaited(calls, state) == calls

\* The loop's await: the last lookup issued has ended in state.
Ended(calls, state) == [calls EXCEPT ![Len(calls)].state = state]

\* A plausible slip: a lookup is issued for a record whatever its domain
\* and provider.
loopToAwaitWithoutSkip(sites, i, mi, log) == [i |-> i, missed |-> mi, log |-> log]

\* A plausible slip: the record's own api_user is not used.
resolveApiUserFromPageOnly(apiUserFromPage, site) == apiUserFromPage

\* const apiUser = apiUserFromPage || site.api_user
resolveApiUser(apiUserFromPage, site) == OrStr(apiUserFromPage, site.api_user)

\* The record the loop pushes to extracted.
extractedAccount(site, session, apiUser) ==
    RawAccount(site.provider, apiUser,
               OrStr(site.account_name, UnderscoreJoin(site.provider, apiUser)),
               session)

\* The loop from record i up to its next await: a record with no domain
\* or no provider is missed without a lookup, and so is one whose domain
\* normalizes to nothing, for which getSessionByDomain asks no cookie.
RECURSIVE loopToAwait(_, _, _, _)
loopToAwait(sites, i, mi, log) ==
    IF i > Len(sites) THEN [i |-> i, missed |-> mi, log |-> log]
    ELSE IF siteDomain(sites[i]) = EmptyStr \/ sites[i].provider = EmptyStr
    THEN loopToAwait(sites, i + 1,
                     Append(mi, Missed(sites[i], "domain_or_provider")),
                     Append(log, Outcome(i, "domain_or_provider", EmptyStr, EmptyStr)))
    ELSE IF normalizeHostname(siteDomain(sites[i])) = EmptyStr
    THEN loopToAwait(sites, i + 1,
                     Append(mi, Missed(sites[i], "session")),
                     Append(log, Outcome(i, "session", EmptyStr, EmptyStr)))
    ELSE [i |-> i, missed |-> mi, log |-> log]

SummaryLimit == 12

\* The lines written to extractSummaryEl.
summaryOf(ex, mi) ==
    [succeeded |-> Len(ex), failed |-> Len(mi), reasons |-> Slice(mi, SummaryLimit),
     more |-> IF Len(mi) > SummaryLimit THEN Len(mi) - SummaryLimit ELSE 0]

\* The loop goes on from record i with ex extracted, mi missed, log and
\* the lookups issued so far; it stops at the next lookup, which it
\* issues, or past the last record merges, shows the result and issues the
\* storageSet of the drafts.
extractFrom(sites, base, i, ex, mi, log, calls) ==
    LET at == loopToAwait(sites, i, mi, log)
    IN  /\ xi' = at.i
        /\ xCalls' = IF at.i <= Len(sites)
                     THEN Append(calls, Call(at.i, "session", "pending"))
                     ELSE calls
        /\ extracted' = ex
        /\ missed' = at.missed
        /\ xLog' = at.log
        /\ xSession' = EmptyStr
        /\ IF at.i <= Len(sites)
           THEN /\ xPc' = "session"
                /\ UNCHANGED <<resultJson, summary, status, drafts>>
           ELSE LET merged == mergeAccounts(base, ex)
                IN  /\ xPc' = "saving"
                    /\ resultJson' = AccountsText("array", merged)
                    /\ summary' = summaryOf(ex, at.missed)
                    /\ status' = [Status("extracted") EXCEPT !.count = Len(merged)]
                    /\ drafts' = [base |-> baseText,
                                  result |-> AccountsText("array", merged)]

\* The click on the extract button, which is disabled while an extraction runs.
ExtractClick ==
    /\ xPc = "idle"
    /\ LET parsed == parseBaseAccounts(baseText)
       IN  IF failedSites = <<>>
           THEN /\ status' = Status("failed_list_empty")
                /\ ev' = "ExtractEmpty"
                /\ UNCHANGED <<resultJson, drafts, extractVars>>
           ELSE IF ~parsed.ok
           THEN /\ status' = Status("base_parse_failed")
                /\ ev' = "ExtractParseFailed"
                /\ UNCHANGED <<resultJson, drafts, extractVars>>
           ELSE /\ xSites' = failedSites
                /\ xBase' = parsed.accounts
                /\ extractFrom(failedSites, parsed.accounts, 1, <<>>, <<>>, <<>>, <<>>)
                /\ ev' = "ExtractClick"
    /\ UNCHANGED <<failedSites, meta, baseText, store, initVars, opVars,
                   lastRender, lastCommit, shown, mergeVars, currentVars, domainVars>>

\* getSessionByDomain answers for record xi.
ExtractSession ==
    /\ xPc = "session"
    /\ \E outcome \in CookieOutcomes :
         LET session == sessionFrom(outcome)
             site == xSites[xi]
         IN  /\ ev' = IF outcome = "error" THEN "ExtractSessionFailed"
                       ELSE "ExtractSession"
             /\ IF session = EmptyStr
                THEN extractFrom(xSites, xBase, xi + 1, extracted,
                                 Append(missed, Missed(site, "session")),
                                 Append(xLog, Outcome(xi, "session", session, EmptyStr)),
                                 Ended(xCalls, "returned"))
                ELSE /\ xPc' = "identity"
                     /\ xSession' = session
                     /\ xCalls' = Append(Ended(xCalls, "returned"),
                                         Call(xi, "identity", "pending"))
                     /\ UNCHANGED <<xi, extracted, missed, xLog, resultJson, summary,
                                    status, drafts>>
    /\ UNCHANGED <<failedSites, meta, baseText, store, initVars, opVars, xSites, xBase,
                   lastRender, lastCommit, shown, mergeVars, currentVars, domainVars>>

\* getApiUserFromOpenTab answers for record xi, or its chrome.tabs.query
\* rejects: nothing catches that, the extraction ends there and the click
\* handler's finally enables the button.
ExtractIdentity ==
    /\ xPc = "identity"
    /\ \E outcome \in TabOutcomes :
         LET apiUserFromPage == apiUserFrom(outcome)
             site == xSites[xi]
             apiUser == resolveApiUser(apiUserFromPage, site)
         IN  IF outcome = "query_rejects"
             THEN /\ xPc' = "idle"
                  /\ ev' = "ExtractAborted"
                  /\ xCalls' = Ended(xCalls, "thrown")
                  /\ UNCHANGED <<xi, xSession, extracted, missed, xLog, resultJson,
                                 summary, status, drafts>>
             ELSE IF apiUser = EmptyStr
             THEN /\ extractFrom(xSites, xBase, xi + 1, extracted,
                                 Append(missed, Missed(site, "api_user")),
                                 Append(xLog, Outcome(xi, "api_user", xSession, apiUserFromPage)),
                                 Ended(xCalls, "returned"))
                  /\ ev' = IF outcome = "script_failed" THEN "ExtractScriptFailed"
                           ELSE "ExtractIdentity"
             ELSE /\ extractFrom(xSites, xBase, xi + 1,
                                 Append(extracted, extractedAccount(site, xSession, apiUser)),
                                 missed,
                                 Append(xLog, Outcome(xi, "success", xSession, apiUserFromPage)),
                                 Ended(xCalls, "returned"))
                  /\ ev' = IF outcome = "script_failed" THEN "ExtractScriptFailed"
                           ELSE "ExtractIdentity"
    /\ UNCHANGED <<failedSites, meta, baseText, store, initVars, opVars, xSites, xBase,
                   lastRender, lastCommit, shown, mergeVars, currentVars, domainVars>>

\* The storageSet of the drafts answers: the extraction has completed.
ExtractDone ==
    /\ xPc = "saving"
    /\ xPc' = "idle"
    /\ ev' = "ExtractDone"
    /\ UNCHANGED <<uiVars, storageVars, initVars, opVars, xSites, xi, xBase, xSession,
                   extracted, missed, xLog, xCalls, summary, lastRender, lastCommit,
                   shown, mergeVars, currentVars, domainVars>>

----------------------------------------------------------------------------
(* The extraction of the current site (popup.js:383-497, 636-643).         *)

\* The domain findFailedSiteByHostname derives for a record.
matchDomain(site) == parseDomainFromUrl(OrStr(pickOpenUrl(site), site.site_url))

\* Array.prototype.find: the least index of a non-empty set of indices.
FirstOf(indices) == CHOOSE i \in indices : \A j \in indices : i <= j

\* A plausible slip: one pass that takes the first record that is equal or
\* related.
findFailedSiteByHostnameInOnePass(sites, hostname) ==
    LET target == normalizeHostname(hostname)
        hits == { i \in 1..Len(sites) :
                    \/ normalizeHostname(matchDomain(sites[i])) = target
                    \/ isSameOrParentDomain(target, matchDomain(sites[i]))
                    \/ isSameOrParentDomain(matchDomain(sites[i]), target) }
    IN  IF target = EmptyStr \/ hits = {} THEN <<>> ELSE << sites[FirstOf(hits)] >>

\* findFailedSiteByHostname: no record (null) or one.
findFailedSiteByHostname(sites, hostname) ==
    LET target == normalizeHostname(hostname)
        exact == { i \in 1..Len(sites) :
                     normalizeHostname(matchDomain(sites[i])) = target }
        related == { i \in 1..Len(sites) :
                       \/ isSameOrParentDomain(target, matchDomain(sites[i]))
                       \/ isSameOrParentDomain(matchDomain(sites[i]), target) }
    IN  IF target = EmptyStr THEN <<>>
        ELSE IF exact # {} THEN << sites[FirstOf(exact)] >>
        ELSE IF related # {} THEN << sites[FirstOf(related)] >>
        ELSE <<>>

FillProvider == <<"__FILL_PROVIDER__">>
FillApiUser == <<"__FILL_API_USER__">>

\* A plausible slip: the record is merged into the base whatever is missing.
currentResultAlwaysMerged(base, record, missingFields) == mergeAccounts(base, <<record>>)

\* missingFields.length ? [currentRecord] : mergeAccounts(baseAccounts, [currentRecord])
currentResult(base, record, missingFields) ==
    IF missingFields # <<>> THEN <<record>> ELSE mergeAccounts(base, <<record>>)

buildCurrentAccountRecord(matchedSite, provider, apiUser, session) ==
    LET providerForOutput == OrStr(provider, FillProvider)
        apiUserForOutput == OrStr(apiUser, FillApiUser)
        fallbackName == UnderscoreJoin(providerForOutput, apiUserForOutput)
        accountName == IF matchedSite = <<>> THEN EmptyStr ELSE matchedSite[1].account_name
    IN  RawAccount(providerForOutput, apiUserForOutput,
                   OrStr(Trim(OrStr(accountName, fallbackName)), fallbackName),
                   session)

\* /^https?:\/\//i.test(tabUrl)
IsHttpUrl(url) == url # <<>> /\ Head(url) = "https://"

\* What chrome.tabs.query({active: true, lastFocusedWindow: true}) can
\* deliver as tabs[0]: no tab or a tab without url, a page that is not
\* http, a URL without a host, pages of three hosts, a tab without id.
ActiveTabs ==
    { NoTab,
      [url |-> <<"chrome://", "x", "/">>, id |-> 5],
      [url |-> UrlOf(<<>>), id |-> 5],
      [url |-> UrlOf(<<"B">>) \o <<" ">>, id |-> 5],
      [url |-> UrlOf(<<"a", ".", "b">>), id |-> 5],
      [url |-> UrlOf(<<"c">>), id |-> 5],
      [url |-> UrlOf(<<"b">>), id |-> 0] }

\* What chrome.cookies.get can do for the session cookie of the URL.
CookieByUrlOutcomes == { "error", "none", "found" }

\* What chrome.scripting.executeScript can do in getApiUserFromTabId.
ScriptOutcomes == { "script_failed", "none", "found" }

\* The summary of the current-site extraction.
CurrentSummary(hostname, hasSession, matchedSite, missingFields, count) ==
    [hostname |-> hostname, hasSession |-> hasSession, matched |-> matchedSite,
     missing |-> missingFields, count |-> count]

\* The status line that names fields: name carries the text put into it.
StatusNaming(msg, fields, count) == [msg |-> msg, name |-> fields, count |-> count]

\* The click on the extract-current button, which is disabled while the
\* extraction runs: getCurrentActiveTab issues its tabs.query.
CurrentClick ==
    /\ cPc = "idle"
    /\ cPc' = "tab"
    /\ cTab' = NoTab
    /\ cSession' = <<>>
    /\ cBase' = <<>>
    /\ cMatched' = <<>>
    /\ cFromPage' = <<>>
    /\ cRecord' = <<>>
    /\ cMissing' = <<>>
    /\ ev' = "CurrentClick"
    /\ UNCHANGED <<uiVars, storageVars, initVars, opVars, lastRender, lastCommit, shown,
                   summary, xPc, xSites, xi, xBase, xSession, extracted, missed, xLog,
                   xCalls, mergeVars, domainVars>>

\* tabs.query answers, or rejects: nothing catches that.
CurrentTab ==
    /\ cPc = "tab"
    /\ \/ /\ cPc' = "idle"
          /\ ev' = "CurrentAborted"
          /\ UNCHANGED <<cTab, status>>
       \/ \E tab \in ActiveTabs :
            LET tabUrl == Trim(tab.url)
            IN  /\ cTab' = tab
                /\ IF tabUrl = EmptyStr
                   THEN /\ status' = Status("no_active_tab")
                        /\ cPc' = "idle"
                        /\ ev' = "CurrentNoTab"
                   ELSE IF ~IsHttpUrl(tabUrl)
                   THEN /\ status' = Status("not_http")
                        /\ cPc' = "idle"
                        /\ ev' = "CurrentNotHttp"
                   ELSE IF normalizeHostname(parseDomainFromUrl(tabUrl)) = EmptyStr
                   THEN /\ status' = Status("no_hostname")
                        /\ cPc' = "idle"
                        /\ ev' = "CurrentNoHostname"
                   ELSE /\ cPc' = "cookie"
                        /\ ev' = "CurrentTab"
                        /\ UNCHANGED status
    /\ UNCHANGED <<failedSites, meta, baseText, resultJson, storageVars, initVars, opVars,
                   lastRender, lastCommit, shown, summary, cSession, cBase, cMatched,
                   cFromPage, cRecord, cMissing, xPc, xSites, xi, xBase, xSession, extracted,
                   missed, xLog, xCalls, mergeVars, domainVars>>

currentHostname == normalizeHostname(parseDomainFromUrl(Trim(cTab.url)))

\* The result, the summary and the status are written and the storageSet
\* of the drafts is issued.
currentBuild(base, matchedSite, apiUserFromPage, session) ==
    LET provider == normalizeProvider(IF matchedSite = <<>> THEN EmptyStr
                                      ELSE matchedSite[1].provider)
        apiUser == Trim(OrStr(apiUserFromPage,
                              IF matchedSite = <<>> THEN EmptyStr
                              ELSE matchedSite[1].api_user))
        currentRecord == buildCurrentAccountRecord(matchedSite, provider, apiUser, session)
        missingFields == (IF provider = EmptyStr THEN <<"provider">> ELSE <<>>)
                         \o (IF apiUser = EmptyStr THEN <<"api_user">> ELSE <<>>)
        merged == currentResult(base, currentRecord, missingFields)
    IN  /\ cFromPage' = apiUserFromPage
        /\ cRecord' = <<currentRecord>>
        /\ cMissing' = missingFields
        /\ resultJson' = AccountsText("array", merged)
        /\ summary' = CurrentSummary(currentHostname, TRUE, matchedSite, missingFields,
                                     Len(merged))
        /\ status' = IF missingFields # <<>>
                     THEN StatusNaming("current_placeholders", missingFields, 0)
                     ELSE StatusNaming("current_extracted", <<>>, Len(merged))
        /\ drafts' = [base |-> baseText, result |-> AccountsText("array", merged)]
        /\ cPc' = "saving"

\* getSessionByUrl has returned session: without one the extraction ends;
\* else the base accounts are parsed, the failed site is matched and
\* getApiUserFromTabId is called, which answers at once for a tab without id.
currentWithSession(session) ==
    LET parsed == parseBaseAccounts(baseText)
        matchedSite == findFailedSiteByHostname(failedSites, currentHostname)
    IN  /\ cSession' = session
        /\ IF session = EmptyStr
           THEN /\ status' = Status("current_no_session")
                /\ summary' = CurrentSummary(currentHostname, FALSE, <<>>, <<>>, 0)
                /\ cPc' = "idle"
                /\ ev' = "CurrentNoSession"
                /\ UNCHANGED <<resultJson, drafts, cBase, cMatched, cFromPage, cRecord,
                               cMissing>>
           ELSE IF ~parsed.ok
           THEN /\ status' = Status("base_parse_failed")
                /\ cPc' = "idle"
                /\ ev' = "CurrentParseFailed"
                /\ UNCHANGED <<resultJson, drafts, summary, cBase, cMatched, cFromPage,
                               cRecord, cMissing>>
           ELSE /\ cBase' = parsed.accounts
                /\ cMatched' = matchedSite
                /\ IF cTab.id = 0
                   THEN /\ currentBuild(parsed.accounts, matchedSite, EmptyStr, session)
                        /\ ev' = "CurrentBuilt"
                   ELSE /\ cPc' = "identity"
                        /\ ev' = "CurrentMatched"
                        /\ UNCHANGED <<resultJson, drafts, summary, status, cFromPage,
                                       cRecord, cMissing>>

\* chrome.cookies.get answers for the URL: without a cookie value or on an
\* error getSessionByDomain asks chrome.cookies.getAll for the domain.
CurrentCookie ==
    /\ cPc = "cookie"
    /\ \E outcome \in CookieByUrlOutcomes :
         IF outcome = "found"
         THEN currentWithSession(<<"S">>)
         ELSE /\ cPc' = "cookies"
              /\ ev' = "CurrentCookie"
              /\ UNCHANGED <<status, resultJson, drafts, summary, cSession, cBase, cMatched,
                             cFromPage, cRecord, cMissing>>
    /\ UNCHANGED <<failedSites, meta, baseText, store, initVars, opVars, lastRender,
                   lastCommit, shown, cTab, xPc, xSites, xi, xBase, xSession, extracted,
                   missed, xLog, xCalls, mergeVars, domainVars>>

\* chrome.cookies.getAll answers for the domain.
CurrentCookies ==
    /\ cPc = "cookies"
    /\ \E outcome \in CookieOutcomes : currentWithSession(sessionFrom(outcome))
    /\ UNCHANGED <<failedSites, meta, baseText, store, initVars, opVars, lastRender,
                   lastCommit, shown, cTab, xPc, xSites, xi, xBase, xSession, extracted,
                   missed, xLog, xCalls, mergeVars, domainVars>>

\* executeScript answers in getApiUserFromTabId.
CurrentIdentity ==
    /\ cPc = "identity"
    /\ \E outcome \in ScriptOutcomes : currentBuild(cBase, cMatched, apiUserFrom(outcome), cSession)
    /\ ev' = "CurrentBuilt"
    /\ UNCHANGED <<failedSites, meta, baseText, store, initVars, opVars, lastRender,
                   lastCommit, shown, cTab, cSession, cBase, cMatched, xPc, xSites, xi,
                   xBase, xSession, extracted, missed, xLog, xCalls, mergeVars,
                   domainVars>>

\* The storageSet of the drafts answers: the extraction has completed.
CurrentDone ==
    /\ cPc = "saving"
    /\ cPc' = "idle"
    /\ ev' = "CurrentDone"
    /\ UNCHANGED <<uiVars, storageVars, initVars, opVars, lastRender, lastCommit, shown,
                   summary, cTab, cSession, cBase, cMatched, cFromPage, cRecord, cMissing, xPc,
                   xSites, xi, xBase, xSession, extracted, missed, xLog, xCalls, mergeVars,
                   domainVars>>

----------------------------------------------------------------------------
(* The popup is closed and opened again: the page's state is gone, what    *)
(* chrome.storage.local holds stays.                                       *)

Reopen ==
    /\ failedSites' = <<>>
    /\ meta' = NoMeta
    /\ status' = Status("")
    /\ baseText' = BlankText
    /\ resultJson' = BlankText
    /\ initPc' = "draft"
    /\ initSaw' = [drafts |-> drafts, store |-> AbsentStore]
    /\ initDid' = {}
    /\ rPc' = "idle"
    /\ iPc' = "idle"
    /\ iFile' = NoFile
    /\ lastRender' = "none"
    /\ xPc' = "idle"
    /\ xSites' = <<>>
    /\ xi' = 0
    /\ xBase' = <<>>
    /\ xSession' = <<>>
    /\ extracted' = <<>>
    /\ missed' = <<>>
    /\ xLog' = <<>>
    /\ xCalls' = <<>>
    /\ summary' = NoSummary
    /\ cPc' = "idle"
    /\ cTab' = NoTab
    /\ cSession' = <<>>
    /\ cBase' = <<>>
    /\ cMatched' = <<>>
    /\ cFromPage' = <<>>
    /\ cRecord' = <<>>
    /\ cMissing' = <<>>
    /\ ev' = "Reopen"
    /\ UNCHANGED <<storageVars, lastCommit, shown, mergeVars, domainVars>>

----------------------------------------------------------------------------
(* Spec: startup, refresh and import, interleaved at their awaits, over    *)
(* any number of sessions of the popup.                                    *)

Init ==
    /\ PopupStart
    /\ mPc = "idle"
    /\ mBase = <<>>
    /\ mIncoming = <<>>
    /\ mOut = <<>>
    /\ mOut2 = <<>>
    /\ mParsed = <<>>

Next ==
    \/ InitRestoreDraft
    \/ InitRestore
    \/ InitLoaded
    \/ RefreshClick
    \/ RefreshFailed
    \/ RefreshLoaded
    \/ RefreshDone
    \/ ImportChange
    \/ ImportRejected
    \/ ImportThrew
    \/ ImportSaved
    \/ ImportDone
    \/ Reopen

Spec == Init /\ [][Next]_vars

----------------------------------------------------------------------------
(* SpecExtract: the batch extraction run, any number of times, in a popup  *)
(* whose init() has loaded a report and whose user has filled in the base  *)
(* accounts.                                                               *)

MaxSites == 3

\* Has a login URL and an api_user of its own.
SiteOwn == RawSite(<<"p">>, <<"n">>, <<"1">>, <<>>, UrlOf(<<"H">>), <<>>, <<>>)
\* Has no api_user of its own and no account name.
SiteAnon == RawSite(<<"q">>, <<>>, <<>>, UrlOf(<<"g">>), <<>>, <<>>, <<>>)
\* Has no provider.
SiteNoProvider == RawSite(<<>>, <<"m">>, <<"2">>, <<>>, UrlOf(<<"H">>), <<>>, <<>>)
\* Its login URL is no URL, its site URL is one.
SiteBadUrl == RawSite(<<"p">>, <<"k">>, <<"3">>, UrlOf(<<"g">>), <<"b">>, <<>>, <<>>)
\* SiteOwn's account under another account name.
SiteTwin == RawSite(<<"P", " ">>, <<>>, <<"1">>, <<>>, <<>>, UrlOf(<<"H">>), <<>>)

ExtractSites == { SiteOwn, SiteAnon, SiteNoProvider, SiteBadUrl, SiteTwin }

\* What the user has in the base accounts textarea.
BaseTexts ==
    { BlankText,
      AccountsText("garbage", <<>>),
      AccountsText("object", <<>>),
      AccountsText("array", <<>>),
      AccountsText("array", << RawAccount(<<"p">>, <<"1">>, <<"o">>, <<"B">>),
                               NonObjectItem,
                               RawAccount(<<"a">>, <<"9">>, <<>>, <<"Z">>) >>) }

\* The popup after init() has loaded a report made of the given records;
\* the base accounts textarea holds one of the given texts.
ExtractStart(sites, texts) ==
    /\ \E raw \in SeqsUpTo(sites, MaxSites), text \in texts :
         LET report == normalizeFailedReport(
                           ReportValue(<<"2", "T", "1">>, <<>>, Len(raw), raw),
                           <<"local">>, <<"9", "T", "1">>)
         IN  /\ failedSites = renderedSites(report)
             /\ meta = renderedMeta(report, <<"9", "T", "1">>)
             /\ baseText = text
    /\ status = Status("loaded")
    /\ resultJson = BlankText
    /\ store = AbsentStore
    /\ drafts = NoDrafts
    /\ initPc = "done"
    /\ initSaw = [drafts |-> NoDrafts, store |-> AbsentStore]
    /\ initDid = {"canonical"}
    /\ rPc = "idle"
    /\ iPc = "idle"
    /\ iFile = NoFile
    /\ ev = "InitLoaded"
    /\ lastRender = "canonical"
    /\ lastCommit = "none"
    /\ shown = NoShown
    /\ xPc = "idle"
    /\ xSites = <<>>
    /\ xi = 0
    /\ xBase = <<>>
    /\ xSession = <<>>
    /\ extracted = <<>>
    /\ missed = <<>>
    /\ xLog = <<>>
    /\ xCalls = <<>>
    /\ summary = NoSummary
    /\ CurrentIdle
    /\ DomainIdle
    /\ mPc = "idle"
    /\ mBase = <<>>
    /\ mIncoming = <<>>
    /\ mOut = <<>>
    /\ mOut2 = <<>>
    /\ mParsed = <<>>

ExtractInit == ExtractStart(ExtractSites, BaseTexts)

ExtractNext ==
    \/ ExtractClick
    \/ ExtractSession
    \/ ExtractIdentity
    \/ ExtractDone

SpecExtract == ExtractInit /\ [][ExtractNext]_vars

----------------------------------------------------------------------------
(* The claims about mergeAccounts, checked under SpecMerge. *)

\* The valid records of base then incoming, normalized, in order.
MergeInputs == NormalizeAll(mBase \o mIncoming)

SamePair(a, b) == a.provider = b.provider /\ a.api_user = b.api_user

\* The last non-empty session among the records of items with r's pair.
LastSessionOf(items, r) ==
    LET Hit(x) == SamePair(x, r) /\ x.session # EmptyStr
        hits == SelectSeq(items, Hit)
    IN  IF hits = <<>> THEN EmptyStr ELSE hits[Len(hits)].session

PairsOf(items) == { <<items[i].provider, items[i].api_user>> : i \in 1..Len(items) }

\* C1: in the output of mergeAccounts(base, incoming), the session of each
\* (provider, api_user) is the last non-empty session among the valid
\* records with that pair, in base-then-incoming order.
C1_SessionIsLastNonEmpty ==
    mPc = "merged" =>
        \A i \in 1..Len(mOut) : mOut[i].session = LastSessionOf(MergeInputs, mOut[i])

\* C2: merging the same incoming list into the result once more changes
\* nothing, neither a record nor the order.
C2_MergeIdempotent ==
    mPc = "remerged" => mOut2 = mOut

\* C2's case: an incoming record with a blank session met a record of its
\* pair that holds a session, and the merge was applied twice.
C2_Witness ==
    /\ mPc = "remerged"
    /\ Len(mBase) > 0
    /\ \E i \in 1..Len(mIncoming), j \in 1..Len(mOut) :
          /\ normalizeAccountRecord(mIncoming[i]) # <<>>
          /\ SamePair(normalizeAccountRecord(mIncoming[i])[1], mOut[j])
          /\ normalizeAccountRecord(mIncoming[i])[1].session = EmptyStr
          /\ mOut[j].session # EmptyStr

\* C3: the output holds exactly one record for each distinct normalized
\* (provider, api_user) among the valid records of base and incoming.
C3_OneRecordPerPair ==
    mPc = "merged" =>
        /\ PairsOf(mOut) = PairsOf(MergeInputs)
        /\ Len(mOut) = Cardinality(PairsOf(MergeInputs))

\* C4: the output is sorted ascending by (provider, api_user): of two
\* adjacent records the earlier one's provider is smaller, or the
\* providers are equal and its api_user is not greater.
C4_OutputSorted ==
    mPc \in {"merged", "remerged"} =>
        \A i \in 1..(Len(mOut) - 1) :
            LET p == LocaleCompare(mOut[i].provider, mOut[i + 1].provider)
            IN  \/ p < 0
                \/ p = 0 /\ LocaleCompare(mOut[i].api_user, mOut[i + 1].api_user) <= 0

\* C4's case: a base record of provider b and an incoming record of
\* provider a, and the a record comes out first.
C4_Witness ==
    /\ mPc = "merged"
    /\ Len(mBase) = 1 /\ Len(mIncoming) = 1
    /\ mBase[1].provider = <<"b">>
    /\ mIncoming[1].provider = <<"A">>
    /\ Len(mOut) = 2
    /\ mOut[1].provider = <<"a">> /\ mOut[2].provider = <<"b">>

----------------------------------------------------------------------------
(* The claims about the override store, checked under Spec. *)

\* Whether restore() finds an override in the keys it read: the flag is
\* true and the payload parses to an object with an array failed_sites.
IsOverride(data) ==
    /\ data.enabled
    /\ data.payload # <<>>
    /\ ~notAReport(safeJsonParse(data.payload[1], NullValue))

\* C5 as stated: every refresh that runs to completion, whatever the
\* outcome of loading the canonical source, leaves the three persisted
\* override keys absent.
C5_EveryRefreshClears ==
    ev \in {"RefreshDone", "RefreshFailed"} => store = AbsentStore

\* C5, amended: a refresh that has loaded and rendered the canonical
\* source has removed the three persisted override keys, and they stay
\* absent, at its completion and after, for as long as no import persists a
\* new override.
C5_LoadedRefreshClears ==
    lastCommit = "refresh" => store = AbsentStore

\* C5's case: an import of file f ran to its end, and a refresh that
\* loaded the canonical source has completed after it.
C5_Witness ==
    /\ ev = "RefreshDone"
    /\ lastCommit = "refresh"
    /\ iPc = "idle" /\ iFile.name = <<"f">>
    /\ store = AbsentStore

\* C6: at startup restore() renders the persisted payload iff the
\* persisted flag is true and the payload parses to an object with an
\* array failed_sites, and otherwise the canonical source is loaded; of
\* {render override, load canonical} exactly one executes.
C6_RestoreExactlyOne ==
    /\ initPc # "failed"
    /\ initPc \in {"load", "done"} =>
          /\ Cardinality(initDid) = 1
          /\ "override" \in initDid <=> IsOverride(initSaw.store)
          /\ "canonical" \in initDid <=> ~IsOverride(initSaw.store)
    /\ initPc = "load" => initDid = {"canonical"}
    /\ initPc \in {"draft", "restore"} => initDid = {}
    /\ ev = "InitRestored" =>
          /\ initPc = "done"
          /\ lastRender = "override"
          /\ failedSites = renderedSites(safeJsonParse(initSaw.store.payload[1], NullValue))

\* C6's case: a startup found a persisted override and rendered it.
C6_Witness ==
    /\ ev = "InitRestored"
    /\ initDid = {"override"}
    /\ IsOverride(initSaw.store)
    /\ Len(failedSites) = 2

\* The reports importFailedReportFromFile can have made of the file.
ImportedReports ==
    { normalizeFailedReport(safeJsonParse(iFile.text, NullValue), <<"email_import">>, now) :
        now \in Times }

ImportRendered ==
    failedSites = renderedSites(safeJsonParse(iFile.text, NullValue))

ImportPersisted ==
    /\ store.enabled
    /\ store.fileName = <<iFile.name>>
    /\ \E report \in ImportedReports : store.payload = <<JsonStringify(report)>>

\* C7 as stated: when a successful import completes, the working set holds
\* the entries of the imported payload and the persisted store holds
\* enabled = true, the serialized report and the label.
C7_ImportCompletesOverridden ==
    ev = "ImportDone" => ImportRendered /\ ImportPersisted

\* C7, amended: a successful import renders the entries of the imported
\* payload and persists enabled = true, the serialized report and the label
\* in one step; when it completes the working set still holds those
\* entries unless a load of the canonical source rendered in between, and
\* the store still holds the override unless a refresh removed it in
\* between.
C7_ImportOverrides ==
    /\ ev = "ImportSaved" => ImportRendered /\ ImportPersisted
    /\ ev = "ImportDone" /\ lastRender = "import" => ImportRendered
    /\ ev = "ImportDone" /\ lastCommit = "import" => ImportPersisted

\* C7's case: the import of file f, whose three entries have two keys, has
\* completed with nothing in between.
C7_Witness ==
    /\ ev = "ImportDone"
    /\ lastRender = "import" /\ lastCommit = "import"
    /\ iFile.name = <<"f">>
    /\ Len(failedSites) = 2
    /\ store.enabled

\* C8: the startup after a successful import, with no refresh in between,
\* restores a working set equal to the one the import rendered, with the
\* same generated_at and source; the persisted report's failed_count is
\* the length of its failed_sites.
C8_OverrideRoundTrip ==
    /\ store.payload # <<>> =>
          store.payload[1].value.failed_count = Len(store.payload[1].value.failed_sites)
    /\ ev = "InitRestored" /\ lastCommit = "import" /\ iFile = NoFile =>
          /\ failedSites = shown.sites
          /\ meta.generatedAt = shown.meta.generatedAt
          /\ meta.source = shown.meta.source
          /\ meta.count = shown.meta.count

\* C8's case: file f, which gives no generated_at and a wrong failed_count,
\* was imported in an earlier session and is restored by this startup.
C8_Witness ==
    /\ ev = "InitRestored"
    /\ lastCommit = "import" /\ iFile = NoFile
    /\ store.fileName = << <<"f">> >>
    /\ store.payload[1].value.failed_count = 3
    /\ Len(failedSites) = 2
    /\ meta.source = <<"email_import">>

----------------------------------------------------------------------------
(* The claims about the batch extraction, checked under SpecExtract.       *)

\* The extraction has run through its loop: it is saving the drafts or has
\* completed.
ExtractCompleted == xPc = "saving" \/ ev = "ExtractDone"

\* C9: an extraction over a non-empty working set and a parsable base list
\* never stops before the last record: the records are processed in list
\* order, each yields one outcome, a failure is followed by the next
\* record, and at completion succeeded plus failed is the number of records.
C9_EveryRecordVisited ==
    /\ ev # "ExtractAborted"
    /\ \A k \in 1..Len(xLog) : xLog[k].index = k
    /\ Len(extracted) + Len(missed) = Len(xLog)
    /\ xPc \in {"session", "identity"} => xi = Len(xLog) + 1 /\ xi <= Len(xSites)
    /\ ExtractCompleted =>
          /\ Len(xLog) = Len(xSites)
          /\ Len(extracted) + Len(missed) = Len(xSites)

\* The record has a provider and a derived domain.
HasDomainAndProvider(site) == siteDomain(site) # EmptyStr /\ site.provider # EmptyStr

\* The outcome C10 gives a record from what its lookups returned.
ClassifiedAs(site, session, apiUserFromPage) ==
    IF ~HasDomainAndProvider(site) THEN "domain_or_provider"
    ELSE IF session = EmptyStr THEN "session"
    ELSE IF apiUserFromPage = EmptyStr /\ site.api_user = EmptyStr THEN "api_user"
    ELSE "success"

IsSuccess(e) == e.outcome = "success"
IsFailure(e) == e.outcome # "success"

\* C10: every outcome of the batch extraction is the one its record's
\* provider, domain and lookup results call for: the missing
\* domain/provider reason without either, else a success exactly when the
\* session lookup returned a token and the identity lookup, or else the
\* record, gives an api_user, else the session reason when the session is
\* missing and the api_user reason when only the identity is; the
\* succeeded list holds the successes with that session and identity, the
\* failed list the failures with their reasons, both in order.
C10_OutcomeClassification ==
    LET successes == SelectSeq(xLog, IsSuccess)
        failures == SelectSeq(xLog, IsFailure)
    IN  /\ \A k \in 1..Len(xLog) :
              xLog[k].outcome =
                 ClassifiedAs(xSites[xLog[k].index], xLog[k].session, xLog[k].apiUserFromPage)
        /\ Len(extracted) = Len(successes)
        /\ \A k \in 1..Len(successes) :
              LET site == xSites[successes[k].index]
              IN  /\ extracted[k].provider = site.provider
                  /\ extracted[k].session = successes[k].session
                  /\ extracted[k].session # EmptyStr
                  /\ extracted[k].api_user =
                        OrStr(successes[k].apiUserFromPage, site.api_user)
                  /\ extracted[k].api_user # EmptyStr
        /\ Len(missed) = Len(failures)
        /\ \A k \in 1..Len(failures) : missed[k].reason = failures[k].outcome

\* C10's case: three records, the first without a session, the second with
\* a session and no identity from the page or of its own, the third
\* resolved by its own api_user: one success, two failures of two reasons.
C10_Witness ==
    /\ ExtractCompleted
    /\ Len(xSites) = 3
    /\ [k \in 1..Len(xLog) |-> xLog[k].outcome] = <<"session", "api_user", "success">>
    /\ xLog[3].apiUserFromPage = EmptyStr
    /\ Len(extracted) = 1
    /\ Len(missed) = 2
    /\ missed[1].reason # missed[2].reason

\* The index of the record whose lookup was the last one to return.
LastReturnedIndex ==
    LET returned == { k \in 1..Len(xCalls) : xCalls[k].state = "returned" }
    IN  xCalls[CHOOSE k \in returned : \A j \in returned : j <= k].index

\* C11: a collaborator call that fails for a record during the batch
\* extraction never leaves the lookup as an exception: no lookup throws,
\* the record gets the outcome of an absent result (the session failure
\* after a failed cookie read, no identity from the page after a failed tab
\* query or script), and the extraction goes on to the next record or to
\* its summary and merged result.
C11_CollaboratorFailureCaught ==
    /\ \A k \in 1..Len(xCalls) : xCalls[k].state # "thrown"
    /\ ev # "ExtractAborted"
    /\ ev = "ExtractSessionFailed" =>
          /\ xPc \in {"session", "saving"}
          /\ \E k \in 1..Len(xLog) :
                xLog[k].index = LastReturnedIndex /\ xLog[k].outcome = "session"
    /\ ev = "ExtractScriptFailed" =>
          /\ xPc \in {"session", "saving"}
          /\ \E k \in 1..Len(xLog) :
                /\ xLog[k].index = LastReturnedIndex
                /\ xLog[k].apiUserFromPage = EmptyStr
                /\ xLog[k].outcome \in {"api_user", "success"}

\* The number of lookups of a kind issued for the record at index i.
Lookups(i, kind) ==
    Cardinality({ k \in 1..Len(xCalls) : xCalls[k].index = i /\ xCalls[k].kind = kind })

\* C12 as stated: in a completed extraction every record has had exactly
\* one session lookup and exactly one identity lookup.
C12_OneLookupOfEachKind ==
    ExtractCompleted =>
        \A i \in 1..Len(xSites) : Lookups(i, "session") = 1 /\ Lookups(i, "identity") = 1

\* C12, as the code has it: a record has at most one session lookup and at
\* most one identity lookup; a record without provider or derived domain
\* has none; an identity lookup is issued only for a record whose session
\* lookup returned a token; a record that failed for its session has had
\* the session lookup alone, and a record that succeeded or failed for its
\* api_user has had one lookup of each kind.
C12_LookupsPerRecord ==
    /\ \A i \in 1..Len(xSites) :
          /\ Lookups(i, "session") <= 1
          /\ Lookups(i, "identity") <= 1
          /\ ~HasDomainAndProvider(xSites[i]) =>
                Lookups(i, "session") = 0 /\ Lookups(i, "identity") = 0
          /\ Lookups(i, "identity") = 1 =>
                /\ Lookups(i, "session") = 1
                /\ (xPc = "identity" /\ xi = i) \/ ev = "ExtractAborted"
                      \/ \E k \in 1..Len(xLog) :
                            xLog[k].index = i /\ xLog[k].session # EmptyStr
    /\ \A k \in 1..Len(xLog) :
          LET i == xLog[k].index
          IN  /\ xLog[k].outcome = "domain_or_provider" =>
                    Lookups(i, "session") = 0 /\ Lookups(i, "identity") = 0
              /\ xLog[k].outcome = "session" =>
                    /\ Lookups(i, "session") =
                          (IF normalizeHostname(siteDomain(xSites[i])) = EmptyStr
                           THEN 0 ELSE 1)
                    /\ Lookups(i, "identity") = 0
              /\ xLog[k].outcome \in {"api_user", "success"} =>
                    Lookups(i, "session") = 1 /\ Lookups(i, "identity") = 1

\* C12's case: a completed extraction over three records, one without a
\* lookup, one with the session lookup alone and one with both.
C12_Witness ==
    /\ ExtractCompleted
    /\ Len(xSites) = 3
    /\ \E i, j, k \in 1..3 :
          /\ Lookups(i, "session") = 0 /\ Lookups(i, "identity") = 0
          /\ Lookups(j, "session") = 1 /\ Lookups(j, "identity") = 0
          /\ Lookups(k, "session") = 1 /\ Lookups(k, "identity") = 1

\* C13: the lookups of an extraction are strictly sequential: only the
\* last lookup issued can be pending, so no two are in flight; the
\* identity lookup of a record directly follows the session lookup of the
\* same record, which has returned; and the records of the lookups never
\* go back, so no lookup of a later record is issued before those of an
\* earlier one have ended.
C13_LookupsSequential ==
    /\ Cardinality({ k \in 1..Len(xCalls) : xCalls[k].state = "pending" }) <= 1
    /\ \A k \in 1..Len(xCalls) :
          /\ k < Len(xCalls) => xCalls[k].state = "returned"
          /\ k > 1 => xCalls[k - 1].index <= xCalls[k].index
          /\ xCalls[k].kind = "identity" =>
                /\ k > 1
                /\ xCalls[k - 1].kind = "session"
                /\ xCalls[k - 1].index = xCalls[k].index
                /\ xCalls[k - 1].state = "returned"
          /\ xCalls[k].kind = "session" /\ k > 1 =>
                xCalls[k - 1].index < xCalls[k].index
    /\ (xPc \in {"session", "identity"}) <=>
          (xCalls # <<>> /\ xCalls[Len(xCalls)].state = "pending")

\* C13's case: the identity lookup of the second record is in flight after
\* both lookups of the first record and its own session lookup returned.
C13_Witness ==
    /\ xPc = "identity"
    /\ Len(xCalls) = 4
    /\ xCalls[1].index < xCalls[3].index
    /\ xCalls[4].state = "pending"
    /\ \A k \in 1..3 : xCalls[k].state = "returned"

----------------------------------------------------------------------------
(* SpecDomain: isSameOrParentDomain applied to every pair of short         *)
(* hostname strings.                                                       *)

MaxHostLen == 3

\* Two letters, one of them a capital, the dot and the space.
HostChars == { "a", "B", ".", " " }

Hostnames == SeqsUpTo(HostChars, MaxHostLen)

DomainInit ==
    /\ dPc = "input"
    /\ dHost \in Hostnames
    /\ dCandidate \in Hostnames
    /\ dSame = FALSE
    /\ PopupOpened
    /\ store = AbsentStore
    /\ drafts = NoDrafts
    /\ initSaw = [drafts |-> NoDrafts, store |-> AbsentStore]
    /\ ev = "Start"
    /\ lastCommit = "none"
    /\ shown = NoShown
    /\ MergeIdle

Compare ==
    /\ dPc = "input"
    /\ dSame' = isSameOrParentDomain(dHost, dCandidate)
    /\ dPc' = "compared"
    /\ UNCHANGED <<dHost, dCandidate, mergeVars, uiVars, storageVars, initVars, opVars,
                   historyVars, extractVars, currentVars>>

DomainNext == Compare

SpecDomain == DomainInit /\ [][DomainNext]_vars

\* host is candidate, or ends with a dot followed by candidate.
SameOrUnder(host, candidate) ==
    \/ host = candidate
    \/ \E k \in 0..Len(host) : host = SubSeq(host, 1, k) \o <<".">> \o candidate

\* C19 as stated: the result is true exactly when the normalized host is
\* the normalized candidate or ends with a dot followed by it.
C19_SuffixMatchOnly ==
    dPc = "compared" =>
        (dSame <=> SameOrUnder(normalizeHostname(dHost), normalizeHostname(dCandidate)))

\* C19, as the code has it: the result is true exactly when the normalized
\* host and the normalized candidate are both non-empty and the host is the
\* candidate or ends with a dot followed by it; a.b is under b, b is not
\* under a.b, and ab is not under b.
C19_SameOrParentDomain ==
    /\ dPc = "compared" =>
          (dSame <=> /\ normalizeHostname(dHost) # EmptyStr
                     /\ normalizeHostname(dCandidate) # EmptyStr
                     /\ SameOrUnder(normalizeHostname(dHost), normalizeHostname(dCandidate)))
    /\ dPc = "compared" /\ dHost = <<"a", ".", "B">> /\ dCandidate = <<"B">> => dSame
    /\ dPc = "compared" /\ dHost = <<"B">> /\ dCandidate = <<"a", ".", "B">> => ~dSame
    /\ dPc = "compared" /\ dHost = <<"a", "B">> /\ dCandidate = <<"B">> => ~dSame

\* C19's case: a host that needs lowering compared with a parent domain
\* that needs trimming and the stripping of its leading dot.
C19_Witness ==
    /\ dPc = "compared"
    /\ dHost = <<"a", ".", "B">>
    /\ dCandidate = <<" ", ".", "B">>
    /\ dSame

----------------------------------------------------------------------------
(* SpecCurrent: a popup whose init() has loaded a report and whose user    *)
(* has filled in the base accounts and then uses one of the two            *)
(* extractions, any number of times: the current-site extraction is not    *)
(* started once a batch extraction has gone through records, nor the       *)
(* batch extraction once the current-site extraction has got a tab.        *)

MaxMatchSites == 2

\* A subdomain of b, with a provider and an api_user.
SiteSub == RawSite(<<"p">>, <<"n">>, <<"1">>, <<>>, UrlOf(<<"a", ".", "b">>), <<>>, <<>>)
\* b itself, with no provider, no account name and no api_user.
SiteParent == RawSite(<<>>, <<>>, <<>>, UrlOf(<<"B">>), <<>>, <<>>, <<>>)
\* A host that ends with b and is no subdomain of it; no api_user.
SiteLookalike == RawSite(<<"q">>, <<"m">>, <<>>, <<>>, <<>>, UrlOf(<<"a", "b">>), <<>>)
\* Its login URL is no URL; its site URL, which is not looked at, is on b.
SiteNoDomain == RawSite(<<"r">>, <<"k">>, <<"2">>, UrlOf(<<"b">>), <<"x">>, <<>>, <<>>)

CurrentSites == { SiteSub, SiteParent, SiteLookalike, SiteNoDomain }

\* The texts of the base accounts field: those of the batch extraction, a
\* text of white space, and a standalone result with a placeholder that
\* the user has pasted into the field as it is.
CurrentBaseTexts ==
    BaseTexts \cup
    { AccountsText("spaces", <<>>),
      AccountsText("array", << RawAccount(<<"p">>, FillApiUser, <<"o">>, <<"B">>) >>) }

\* What a previous popup's extraction has left in storage and restoreDraft
\* has put into the result field.
RestoredResult ==
    AccountsText("array", mergeAccounts(<<>>, << RawAccount(<<"p">>, <<"1">>, <<"o">>, <<"B">>) >>))

RestoredDrafts == [base |-> BlankText, result |-> RestoredResult]

CurrentInit ==
    /\ \E raw \in SeqsUpTo(CurrentSites, MaxMatchSites), text \in CurrentBaseTexts :
         LET report == normalizeFailedReport(
                           ReportValue(<<"2", "T", "1">>, <<>>, Len(raw), raw),
                           <<"local">>, <<"9", "T", "1">>)
         IN  /\ failedSites = renderedSites(report)
             /\ meta = renderedMeta(report, <<"9", "T", "1">>)
             /\ baseText = text
    /\ status = Status("loaded")
    /\ resultJson = RestoredResult
    /\ store = AbsentStore
    /\ drafts = RestoredDrafts
    /\ initPc = "done"
    /\ initSaw = [drafts |-> NoDrafts, store |-> AbsentStore]
    /\ initDid = {"canonical"}
    /\ rPc = "idle"
    /\ iPc = "idle"
    /\ iFile = NoFile
    /\ ev = "InitLoaded"
    /\ lastRender = "canonical"
    /\ lastCommit = "none"
    /\ shown = NoShown
    /\ xPc = "idle"
    /\ xSites = <<>>
    /\ xi = 0
    /\ xBase = <<>>
    /\ xSession = <<>>
    /\ extracted = <<>>
    /\ missed = <<>>
    /\ xLog = <<>>
    /\ xCalls = <<>>
    /\ summary = NoSummary
    /\ CurrentIdle
    /\ DomainIdle
    /\ MergeIdle

CurrentNext ==
    \/ xPc = "idle" /\ xSites = <<>> /\ CurrentClick
    \/ CurrentTab
    \/ CurrentCookie
    \/ CurrentCookies
    \/ CurrentIdentity
    \/ CurrentDone
    \/ CurrentIdle /\ ExtractClick
    \/ ExtractSession
    \/ ExtractIdentity
    \/ ExtractDone

SpecCurrent == CurrentInit /\ [][CurrentNext]_vars

(***************************************************************************)
(* The placeholders of the current-site extraction.                        *)
(***************************************************************************)

HasSentinel(account) ==
    account.provider = FillProvider \/ account.api_user = FillApiUser

\* The matched failed site gives a provider.
ProviderResolved == cMatched # <<>> /\ cMatched[1].provider # EmptyStr

\* The page or the matched failed site gives an api_user.
ApiUserResolved ==
    cFromPage # EmptyStr \/ (cMatched # <<>> /\ cMatched[1].api_user # EmptyStr)

UnresolvedFields ==
    (IF ProviderResolved THEN <<>> ELSE <<"provider">>)
    \o (IF ApiUserResolved THEN <<>> ELSE <<"api_user">>)

\* With a session and a parsable base list the extraction goes on to its
\* end; an unresolved field, and no other, holds its sentinel; the status
\* and the summary name exactly the unresolved fields; the result is the
\* record alone when a field is unresolved and mergeAccounts(base,
\* [record]) when none is.
PlaceholderContract ==
    ev = "CurrentBuilt" =>
        /\ cPc = "saving"
        /\ cSession # EmptyStr
        /\ Len(cRecord) = 1
        /\ cRecord[1].session = cSession
        /\ (cRecord[1].provider = FillProvider) <=> ~ProviderResolved
        /\ ProviderResolved => cRecord[1].provider = cMatched[1].provider
        /\ (cRecord[1].api_user = FillApiUser) <=> ~ApiUserResolved
        /\ cMissing = UnresolvedFields
        /\ status.name = UnresolvedFields
        /\ status.msg = IF UnresolvedFields # <<>> THEN "current_placeholders"
                        ELSE "current_extracted"
        /\ summary.missing = UnresolvedFields
        /\ resultJson.kind = "array"
        /\ resultJson.items = IF UnresolvedFields # <<>> THEN cRecord
                              ELSE mergeAccounts(cBase, cRecord)
        /\ drafts.result = resultJson

\* C14 as stated: the placeholder contract, and no record with a sentinel
\* is ever in a merged result.
C14_NoSentinelInMergedResult ==
    /\ PlaceholderContract
    /\ (ev = "CurrentBuilt" /\ cMissing = <<>>) =>
           \A k \in 1..Len(resultJson.items) : ~HasSentinel(resultJson.items[k])

\* C14: in the current-site extraction with a session found and a parsable
\* base list the placeholder contract holds, the record that is merged
\* holds no sentinel, and a record with a sentinel is in a merged result
\* only when the base list held a record of its provider and api_user.
C14_PlaceholdersStandalone ==
    /\ PlaceholderContract
    /\ (ev = "CurrentBuilt" /\ cMissing = <<>>) =>
           /\ ~HasSentinel(cRecord[1])
           /\ \A k \in 1..Len(resultJson.items) :
                  HasSentinel(resultJson.items[k]) =>
                      \E j \in 1..Len(cBase) :
                          /\ cBase[j].provider = resultJson.items[k].provider
                          /\ cBase[j].api_user = resultJson.items[k].api_user

\* The page gave the api_user, the matched site no provider: the record
\* with the provider sentinel is the result, without the base records.
C14_Witness ==
    /\ ev = "CurrentBuilt"
    /\ cMissing = <<"provider">>
    /\ cFromPage # EmptyStr
    /\ cMatched # <<>>
    /\ Len(cBase) = 2
    /\ cRecord[1].provider = FillProvider
    /\ resultJson.items = cRecord

(***************************************************************************)
(* The base accounts text that is no array.                                *)
(***************************************************************************)

\* The step in which an extraction calls parseBaseAccounts: the batch
\* extraction of a working set that is not empty, at its click; the
\* current-site extraction when its session lookup has found a session.
ParsesBase ==
    \/ xPc = "idle" /\ ev' \in {"ExtractParseFailed", "ExtractClick"}
    \/ /\ cPc \in {"cookie", "cookies"}
       /\ ev' \in {"CurrentParseFailed", "CurrentMatched", "CurrentBuilt"}

\* The extraction stops at the parse: the message is in the status, the
\* result, the drafts and the summary are as they were, no lookup has
\* been issued, and neither extraction runs on.
HardParseError ==
    /\ ev' \in {"ExtractParseFailed", "CurrentParseFailed"}
    /\ status' = Status("base_parse_failed")
    /\ resultJson' = resultJson
    /\ drafts' = drafts
    /\ summary' = summary
    /\ xCalls' = xCalls
    /\ xPc' = "idle"
    /\ cPc' = "idle"

\* The extraction goes on with the list it has parsed.
AcceptedAs(accounts) ==
    /\ ev' \notin {"ExtractParseFailed", "CurrentParseFailed"}
    /\ status' # Status("base_parse_failed")
    /\ IF ev' = "ExtractClick" THEN xBase' = accounts ELSE cBase' = accounts

\* C15 as stated: a text that is not empty and is no JSON array is a hard
\* parse error of the extraction that parses it, and an empty text or an
\* empty array is accepted as the empty list.
C15_NotEmptyNotArrayFails ==
    [][ParsesBase =>
          IF baseText.kind # "blank" /\ baseText.kind # "array"
          THEN HardParseError
          ELSE baseText.items = <<>> => AcceptedAs(<<>>)]_vars

\* C15: a text that is more than white space and is no JSON array is a
\* hard parse error of the extraction that parses it: the extraction
\* stops with the message in the status, result, drafts and summary are
\* unchanged and the batch extraction issues no lookup; an empty text, a
\* text of white space and an empty array are accepted as the empty
\* list, any other array as the list of its valid records.
C15_NotArrayIsHardError ==
    [][ParsesBase =>
          IF baseText.kind \in {"garbage", "object"}
          THEN HardParseError
          ELSE AcceptedAs(IF baseText.kind = "array"
                          THEN NormalizeAll(baseText.items) ELSE <<>>)]_vars

\* The current-site extraction has found a session and stopped at a base
\* text that is a JSON object, the restored result still displayed.
C15_Witness ==
    /\ ev = "CurrentParseFailed"
    /\ baseText.kind = "object"
    /\ cSession # EmptyStr
    /\ status = Status("base_parse_failed")
    /\ resultJson = RestoredResult
    /\ drafts = RestoredDrafts
    /\ cPc = "idle"

----------------------------------------------------------------------------
(* The invalid account entries, checked under SpecMerge. *)

OnlySpaces(s) == \A i \in 1..Len(s) : s[i] = " "

\* The item's provider or api_user is absent or white space.
NormalizesToEmpty(item) == OnlySpaces(item.provider) \/ OnlySpaces(item.api_user)

IsValidItem(item) == ~NormalizesToEmpty(item)

NoEmptyIdentity(accounts) ==
    \A k \in 1..Len(accounts) :
        accounts[k].provider # EmptyStr /\ accounts[k].api_user # EmptyStr

\* C16: normalizeAccountRecord returns no value exactly for the items whose
\* provider or api_user normalizes to empty and a record with both
\* non-empty for the others, so parseAccountsJsonArray does not fail on a
\* list with invalid items and returns one record for each valid item, in
\* order; no record of the output of parseAccountsJsonArray or of
\* mergeAccounts has an empty provider or an empty api_user.
C16_InvalidEntriesDropped ==
    /\ mPc = "parsed" =>
          LET items == mBase \o mIncoming
              valid == SelectSeq(items, IsValidItem)
              out == mParsed[1]
          IN  /\ out.ok
              /\ Len(out.accounts) = Len(valid)
              /\ \A k \in 1..Len(valid) :
                    /\ out.accounts[k].provider = ToLowerCase(Trim(valid[k].provider))
                    /\ out.accounts[k].api_user = Trim(valid[k].api_user)
              /\ NoEmptyIdentity(out.accounts)
              /\ \A i \in 1..Len(items) :
                    (normalizeAccountRecord(items[i]) = <<>>) <=> NormalizesToEmpty(items[i])
    /\ mPc \in {"merged", "remerged"} => NoEmptyIdentity(mOut)
    /\ mPc = "remerged" => NoEmptyIdentity(mOut2)

\* A list of an item with a provider and no api_user and of a valid item
\* has been parsed: the valid item's record is all of the output.
C16_Witness ==
    /\ mPc = "parsed"
    /\ Len(mBase \o mIncoming) = 2
    /\ OnlySpaces((mBase \o mIncoming)[1].api_user)
    /\ (mBase \o mIncoming)[1].provider = <<"b">>
    /\ IsValidItem((mBase \o mIncoming)[2])
    /\ mParsed[1].ok
    /\ Len(mParsed[1].accounts) = 1

----------------------------------------------------------------------------
(* The malformed entries of a failure report, checked under Spec. *)

\* C17: no load, import or restore fails on a malformed entry of
\* failed_sites (renderFailedSites never throws), and no record of the
\* working set comes from a malformed entry: of the reports that are
\* fetched and imported only the entry that is a number normalizes to the
\* record whose fields are all empty.
C17_MalformedEntryExcluded ==
    /\ ev \notin {"ImportThrew", "InitRestoreThrew"}
    /\ \A i \in 1..Len(failedSites) : failedSites[i] # normalizeFailedSite(ScalarSite)

----------------------------------------------------------------------------
(* The working set and the identity keys of the rendered report, checked   *)
(* under Spec.                                                             *)

IdentityOf(x) == <<x.provider, x.account_name, x.api_user>>

\* The entries of a report that renderFailedSites can render, normalized.
NormalizedEntries(report) ==
    [i \in 1..Len(report.failed_sites) |-> normalizeFailedSite(report.failed_sites[i])]

\* One record for each identity of the entries and no other, each record
\* being the last entry of its identity as it is.
OnePerIdentity(sites, entries) ==
    /\ { IdentityOf(sites[k]) : k \in 1..Len(sites) }
         = { IdentityOf(entries[i]) : i \in 1..Len(entries) }
    /\ Len(sites) = Cardinality({ IdentityOf(entries[i]) : i \in 1..Len(entries) })
    /\ \A k \in 1..Len(sites) :
          \E i \in 1..Len(entries) :
              /\ sites[k] = entries[i]
              /\ \A j \in (i + 1)..Len(entries) :
                     IdentityOf(entries[j]) # IdentityOf(entries[i])

\* C18: when a report has been rendered, at startup, by a refresh or by
\* an import, the working set holds exactly one record for each distinct
\* (provider, account_name, api_user) of the report's entries, and that
\* record is the last entry with that identity, whole.
C18_OneRecordPerIdentity ==
    /\ ev = "ImportSaved" =>
          OnePerIdentity(failedSites,
                         NormalizedEntries(safeJsonParse(iFile.text, NullValue)))
    /\ ev \in {"InitLoaded", "RefreshLoaded"} =>
          \E got \in FetchOutcomes :
              /\ got.ok
              /\ ~renderThrows(got.json)
              /\ OnePerIdentity(failedSites, NormalizedEntries(got.json))

----------------------------------------------------------------------------
(* The failed site matched to the current tab, checked under SpecCurrent.  *)

\* The first of login_url, oauth_login_url and site_url that is not empty.
FirstUrlOf(site) ==
    IF site.login_url # EmptyStr THEN site.login_url
    ELSE IF site.oauth_login_url # EmptyStr THEN site.oauth_login_url
    ELSE site.site_url

HostOf(site) == normalizeHostname(parseDomainFromUrl(FirstUrlOf(site)))

Least(indices) == CHOOSE i \in indices : \A j \in indices : ~(j < i)

\* The records whose hostname is the target.
ExactOnes(target) == { i \in 1..Len(failedSites) : HostOf(failedSites[i]) = target }

\* The records whose hostname is a parent domain or a subdomain of the target.
RelatedOnes(target) ==
    { i \in 1..Len(failedSites) :
        /\ HostOf(failedSites[i]) # EmptyStr
        /\ \/ SameOrUnder(target, HostOf(failedSites[i]))
           \/ SameOrUnder(HostOf(failedSites[i]), target) }

----------------------------------------------------------------------------
(* SpecOverlap: the refresh and the import, run any number of times and    *)
(* interleaved at their awaits, in a popup whose init() has completed,     *)
(* either with the packaged report loaded and no override stored or with   *)
(* the override of an earlier import restored.                             *)

OverlapInit ==
    /\ \E now \in Times :
         \/ \E canon \in {CanonEmpty, CanonSites} :
               LET report == normalizeFailedReport(canon, <<"local">>, now)
               IN  /\ failedSites = renderedSites(report)
                   /\ meta = renderedMeta(report, now)
                   /\ status = Status("loaded")
                   /\ store = AbsentStore
                   /\ initSaw = [drafts |-> NoDrafts, store |-> AbsentStore]
                   /\ initDid = {"canonical"}
                   /\ ev = "InitLoaded"
                   /\ lastRender = "canonical"
                   /\ lastCommit = "none"
         \/ LET saved == persistedOverride(
                             ImportDated,
                             normalizeFailedReport(ImportDated, <<"email_import">>, now),
                             <<"g">>)
                found == restorableReport(saved, now)
            IN  /\ failedSites = renderedSites(found[1])
                /\ meta = renderedMeta(found[1], now)
                /\ status = [Status("override_loaded") EXCEPT !.name = <<"g">>]
                /\ store = saved
                /\ initSaw = [drafts |-> NoDrafts, store |-> saved]
                /\ initDid = {"override"}
                /\ ev = "InitRestored"
                /\ lastRender = "override"
                /\ lastCommit = "import"
    /\ baseText = BlankText
    /\ resultJson = BlankText
    /\ drafts = NoDrafts
    /\ initPc = "done"
    /\ rPc = "idle"
    /\ iPc = "idle"
    /\ iFile = NoFile
    /\ shown = NoShown
    /\ xPc = "idle"
    /\ xSites = <<>>
    /\ xi = 0
    /\ xBase = <<>>
    /\ xSession = <<>>
    /\ extracted = <<>>
    /\ missed = <<>>
    /\ xLog = <<>>
    /\ xCalls = <<>>
    /\ summary = NoSummary
    /\ CurrentIdle
    /\ DomainIdle
    /\ MergeIdle

OverlapNext ==
    \/ RefreshClick
    \/ RefreshFailed
    \/ RefreshLoaded
    \/ RefreshDone
    \/ ImportChange
    \/ ImportRejected
    \/ ImportThrew
    \/ ImportSaved
    \/ ImportDone

SpecOverlap == OverlapInit /\ [][OverlapNext]_vars

\* The working set was last rendered from an imported payload.
ShowsImported == lastRender \in {"import", "override"}

\* What the next startup's restoreImportedFailedReport would render.
NextStartupRestores ==
    \A now \in Times :
        /\ restorableReport(store, now) # <<>>
        /\ ~renderThrows(restorableReport(store, now)[1])
        /\ renderedSites(restorableReport(store, now)[1]) = failedSites

\* C21: whenever neither the refresh nor the import is running, whatever
\* their interleaving was, the persisted enabled flag is set exactly when
\* the working set was last rendered from the imported payload, and then
\* the next startup restores the working set the user sees.
C21_OverrideMatchesWorkingSet ==
    (rPc = "idle" /\ iPc = "idle") =>
        /\ store.enabled <=> ShowsImported
        /\ store.enabled => NextStartupRestores

\* A refresh rendered the packaged report and was waiting for its
\* storageRemove when an import rendered and completed; then the refresh
\* completed: the import is what is shown and what is stored.
C21_Witness ==
    /\ ev = "RefreshDone"
    /\ rPc = "idle"
    /\ iPc = "idle"
    /\ iFile # NoFile
    /\ lastRender = "import"
    /\ lastCommit = "import"
    /\ store.enabled
    /\ failedSites # <<>>

----------------------------------------------------------------------------
(* SpecSnapshot: one batch extraction in a popup whose init() has loaded a *)
(* report, and a refresh and an import that the user starts while the      *)
(* extraction is suspended at a lookup and the working set is still the    *)
(* one the extraction started with; they replace the working set under     *)
(* the running loop.                                                       *)

\* The base accounts textarea is empty, or holds a record some site of the
\* working set can succeed for and two records whose provider and api_user
\* differ and read the same when joined by an underscore.
SnapshotBaseTexts ==
    { BlankText,
      AccountsText("array", << RawAccount(<<"p">>, <<"1">>, <<"o">>, <<"B">>),
                               RawAccount(<<"A">>, <<"b", "_", "c">>, <<"n">>, <<"S">>),
                               RawAccount(<<"a", "_", "b">>, <<"c", " ">>, <<>>, <<>>) >>) }

SnapshotSites == { SiteOwn, SiteAnon }

SnapshotInit == ExtractStart(SnapshotSites, SnapshotBaseTexts)

ExtractionSuspended == xPc \in {"session", "identity"}

NotYetReplaced == lastCommit = "none"

SnapshotNext ==
    \/ xSites = <<>> /\ rPc = "idle" /\ iPc = "idle" /\ ExtractClick
    \/ ExtractSession
    \/ ExtractIdentity
    \/ ExtractDone
    \/ ExtractionSuspended /\ NotYetReplaced /\ RefreshClick
    \/ RefreshFailed
    \/ RefreshLoaded
    \/ RefreshDone
    \/ ExtractionSuspended /\ NotYetReplaced /\ ImportChange
    \/ ImportRejected
    \/ ImportThrew
    \/ ImportSaved
    \/ ImportDone

SpecSnapshot == SnapshotInit /\ [][SnapshotNext]_vars

\* The records the running extraction has visited so far, in visiting order.
VisitedRecords(sites, log) == [k \in 1..Len(log) |-> sites[log[k].index]]

\* The extraction leaves its loop in this step: it was suspended at a lookup
\* and is no longer.
LeavesLoop == ExtractionSuspended /\ ~ExtractionSuspended'

\* C22: a batch extraction processes exactly the records of the working set
\* it started with: the list it iterates is the working set at the click and
\* stays that list whatever refresh or import renders meanwhile, the records
\* are visited in that list's order, and when the extraction leaves its loop
\* it has visited all of them and the summary counts add up to their number.
C22_StartingSnapshotProcessed ==
    [][ /\ ev' = "ExtractClick" => xSites' = failedSites
        /\ xPc # "idle" => xSites' = xSites
        /\ \A k \in 1..Len(xLog') : xLog'[k].index = k
        /\ LeavesLoop =>
              /\ VisitedRecords(xSites', xLog') = xSites
              /\ summary'.succeeded + summary'.failed = Len(xSites)
      ]_vars

----------------------------------------------------------------------------
(* The claim about a rejected import, checked under Spec.                  *)

\* The text does not parse to an object with an array failed_sites.
NoReportIn(text) ==
    \/ ~text.wellFormed
    \/ ~text.value.isObj
    \/ ~text.value.hasSites

\* The import leaves its reading step: file.text() has answered and the
\* import has gone on to its next await or has ended (closing the popup
\* ends no import, it discards the page).
ImportReadEnds == iPc = "reading" /\ iPc' # "reading" /\ ev' # "Reopen"

\* C23: an import of a file whose content does not parse to an object with
\* an array failed_sites ends with the error reported and with the working
\* set, what is rendered, the override state and the three persisted
\* override keys unchanged.
C23_RejectedImportChangesNothing ==
    [][ (ImportReadEnds /\ NoReportIn(iFile.text)) =>
            /\ iPc' = "idle"
            /\ status' = Status("import_invalid")
            /\ failedSites' = failedSites
            /\ meta' = meta
            /\ shown' = shown
            /\ lastRender' = lastRender
            /\ lastCommit' = lastCommit
            /\ store' = store
      ]_vars

\* An import was rejected while an imported report was in force: it is still
\* rendered and persisted.
C23_Witness ==
    /\ ev = "ImportRejected"
    /\ NoReportIn(iFile.text)
    /\ status = Status("import_invalid")
    /\ lastRender \in {"import", "override"}
    /\ failedSites # <<>>
    /\ store.enabled
    /\ store.payload # <<>>
    /\ store.fileName # <<>>

----------------------------------------------------------------------------
(* The claim about the result of a batch extraction, checked under         *)
(* SpecSnapshot.                                                           *)

\* The extraction has merged and shown its result.
ResultShown == resultJson.kind = "array"

\* The base record has the key of no Success record.
MatchesNoSuccess(b) == \A j \in 1..Len(extracted) : ~SamePair(b, extracted[j])

\* C24: the (provider, api_user) keys of the result of a completed batch
\* extraction are the keys of the valid base records together with the keys
\* of the Success records, and every base record whose key is the key of no
\* Success record is in the result with its name and session.
C24_ResultKeepsBaseAddsSuccess ==
    ResultShown =>
        /\ PairsOf(resultJson.items) = PairsOf(xBase) \cup PairsOf(extracted)
        /\ \A i \in 1..Len(xBase) :
              MatchesNoSuccess(xBase[i]) =>
                 \E r \in 1..Len(resultJson.items) :
                    /\ SamePair(resultJson.items[r], xBase[i])
                    /\ resultJson.items[r].name = xBase[i].name
                    /\ resultJson.items[r].session = xBase[i].session

====
